---- MODULE Spec2Model ----
(***************************************************************************)
(* Model of the comparison package of NCAA-Predictions: the pairwise       *)
(* comparators (compare_teams of the PageRank, Elo, Bradley-Terry, seed,   *)
(* resistance and hybrid models) and the probability-tree Tournament       *)
(* (construction, play_round, round_winners, normalize).                   *)
(*                                                                         *)
(* Probabilities are exact rationals <<n, d>> in lowest terms, d > 0; the  *)
(* float NaN that numpy's 0.0/0.0 yields is the value <<0, 0>>.            *)
(***************************************************************************)
EXTENDS Integers, Sequences, FiniteSets, TLC

VARIABLES tournament, prev, built, rounds, lastCall, log, comparator, ret,
          fitted, files, build, frames

vars == <<tournament, prev, built, rounds, lastCall, log, comparator, ret,
          fitted, files, build, frames>>

----------------------------------------------------------------------------
(* Bounds of the model. *)

\* deepest nested tuple handed to from_nested_tuple
MaxDepth == 3
\* most leaves of a bracket that is built
MaxTeams == 5
\* most models wrapped by one hybrid comparator
MaxWrapped == 2
\* resolution of the tabulated chi-squared cdf: values k / CdfDen
CdfDen == 5
\* most names in a list given to from_name_list
MaxNames == 16
\* most quadrants of a bracket
MaxQuadrants == 4
\* the interpreter's limit on nested calls (sys.getrecursionlimit())
RecursionLimit == 3
\* most game records in a season summary
MaxGames == 2
\* most harvest calls followed within one get_total_summary
MaxHarvests == 2

\* the largest max_paths and max_depth arguments of the path enumeration
MaxPaths == 4

MaxPathDepth == 3

----------------------------------------------------------------------------
(* Rational arithmetic standing for Python / numpy floats. *)

Abs(x) == IF x < 0 THEN -x ELSE x

RECURSIVE GCD(_, _)
GCD(a, b) == IF b = 0 THEN a ELSE GCD(b, a % b)

NaN == <<0, 0>>

IsNaN(x) == x[2] = 0

Rat(n, d) ==
    IF d = 0 THEN NaN
    ELSE LET g == GCD(Abs(n), Abs(d))
             s == IF d < 0 THEN -1 ELSE 1
         IN  <<(s * n) \div g, (s * d) \div g>>

Zero == <<0, 1>>
One == <<1, 1>>
Half == <<1, 2>>

RAdd(x, y) ==
    IF IsNaN(x) \/ IsNaN(y) THEN NaN
    ELSE LET g == GCD(x[2], y[2])
         IN  Rat(x[1] * (y[2] \div g) + y[1] * (x[2] \div g), x[2] * (y[2] \div g))

RNeg(x) == IF IsNaN(x) THEN NaN ELSE <<-x[1], x[2]>>

RSub(x, y) == RAdd(x, RNeg(y))

RMul(x, y) ==
    IF IsNaN(x) \/ IsNaN(y) THEN NaN
    ELSE LET g1 == GCD(Abs(x[1]), y[2])
             g2 == GCD(Abs(y[1]), x[2])
         IN  IF x[1] = 0 \/ y[1] = 0 THEN Zero
             ELSE <<(x[1] \div g1) * (y[1] \div g2), (x[2] \div g2) * (y[2] \div g1)>>

\* numpy float64 division: 0.0/0.0 is nan (a RuntimeWarning, no exception)
RDiv(x, y) ==
    IF IsNaN(x) \/ IsNaN(y) \/ y[1] = 0 THEN NaN
    ELSE RMul(x, Rat(y[2], y[1]))

\* every comparison with nan is False
RLt(x, y) ==
    /\ ~IsNaN(x) /\ ~IsNaN(y)
    /\ LET g == GCD(x[2], y[2]) IN x[1] * (y[2] \div g) < y[1] * (x[2] \div g)
RLe(x, y) ==
    /\ ~IsNaN(x) /\ ~IsNaN(y)
    /\ LET g == GCD(x[2], y[2]) IN x[1] * (y[2] \div g) <= y[1] * (x[2] \div g)
RGt(x, y) == RLt(y, x)
RGe(x, y) == RLe(y, x)

RAbs(x) == <<Abs(x[1]), x[2]>>

\* Python's min(x, y) and max(x, y): the first argument unless the second is
\* strictly smaller (greater); a nan first argument is therefore returned
PyMin2(x, y) == IF RLt(y, x) THEN y ELSE x
PyMax2(x, y) == IF RGt(y, x) THEN y ELSE x

RECURSIVE PyMin(_)
PyMin(s) == IF Len(s) = 1 THEN s[1] ELSE PyMin2(PyMin(SubSeq(s, 1, Len(s) - 1)), s[Len(s)])

RECURSIVE PyMax(_)
PyMax(s) == IF Len(s) = 1 THEN s[1] ELSE PyMax2(PyMax(SubSeq(s, 1, Len(s) - 1)), s[Len(s)])

\* Python's sum(): left to right, starting from 0
RECURSIVE RSum(_)
RSum(s) == IF s = <<>> THEN Zero ELSE RAdd(RSum(SubSeq(s, 1, Len(s) - 1)), s[Len(s)])

RECURSIVE RSumSet(_, _)
RSumSet(f, S) ==
    IF S = {} THEN Zero
    ELSE LET x == CHOOSE y \in S : TRUE IN RAdd(f[x], RSumSet(f, S \ {x}))

RECURSIVE SumOver(_, _)
SumOver(f, S) ==
    IF S = {} THEN 0
    ELSE LET x == CHOOSE y \in S : TRUE IN f[x] + SumOver(f, S \ {x})

----------------------------------------------------------------------------
(* Teams.  A Team is {name, seed}; two teams are equal when their names    *)
(* are equal.  Every name carries one seed in a bracket.                   *)

Names == {"A", "B", "C", "D"}

SeedOf == [n \in Names |-> CASE n = "A" -> 1 [] n = "B" -> 16 [] n = "C" -> 8 [] n = "D" -> 9]

Team(n) == [name |-> n, seed |-> SeedOf[n]]

Teams == {Team(n) : n \in Names}

TeamEq(a, b) == a.name = b.name

\* the names a fitted season model holds a score for; "D" is outside it
Universe == {"A", "B", "C"}

----------------------------------------------------------------------------
(* The comparators' compare_teams.  A fitted model is a record tagged by   *)
(* kind; Raises(m, a, b) says compare_teams raises instead of returning.   *)

\* math.sqrt(2) as a rational
Sqrt2 == <<99, 70>>

\* scipy.stats.chi2.cdf(x, df) for the fitted df, as a table over the score
\* levels (increasing in the score): the model's cdf field holds the numerator
\* over CdfDen
Chi2Cdf(m, x) == Rat(m.cdf[x], CdfDen)

SetMin(S) == CHOOSE x \in S : \A y \in S : x <= y
SetMax(S) == CHOOSE x \in S : \A y \in S : x >= y

MinVec(m) == SetMin({m.rankings[n] : n \in DOMAIN m.rankings})
MaxVec(m) == SetMax({m.rankings[n] : n \in DOMAIN m.rankings})

PageRankCompare(m, a, b) ==
    LET rankA == m.rankings[a.name]
        rankB == m.rankings[b.name]
        max_cdf == Chi2Cdf(m, MaxVec(m))
        min_cdf == Chi2Cdf(m, MinVec(m))
        diff == RDiv(RSub(max_cdf, min_cdf), Sqrt2)
        a_cdf == Chi2Cdf(m, rankA)
        b_cdf == Chi2Cdf(m, rankB)
        prob == PyMin2(RAdd(RDiv(RAbs(RSub(a_cdf, b_cdf)), diff), Half), <<999, 1000>>)
    IN  IF rankA >= rankB THEN prob ELSE RSub(One, prob)

RECURSIVE Pow10(_)
Pow10(k) == IF k = 0 THEN 1 ELSE 10 * Pow10(k - 1)

\* 10 ** (rating / 400), exact for the ratings of the model (multiples of 400)
EloQ(rating) == Pow10((rating[1] \div rating[2]) \div 400)

EloCompare(m, a, b) ==
    LET qA == EloQ(m.rankings[a.name])
        qB == EloQ(m.rankings[b.name])
    IN  Rat(qA, qA + qB)

BradleyTerryCompare(m, a, b) ==
    LET scoreA == m.rankings[a.name]
        scoreB == m.rankings[b.name]
    IN  RDiv(scoreA, RAdd(scoreA, scoreB))

\* norm.cdf(0, loc=d, scale=sqrt(68/3)) in millionths, for d = -15 .. 15
NormCdfTable ==
    <<999185, 998362, 996839, 994141, 989569, 982154, 970646, 953554,
      929259, 896211, 853189, 799593, 735694, 662788, 583183, 500000,
      416817, 337212, 264306, 200407, 146811, 103789, 70741, 46446,
      29354, 17846, 10431, 5859, 3161, 1638, 815>>

NormCdf0(loc) == Rat(NormCdfTable[loc + 16], 1000000)

SeedCompare(m, a, b) == NormCdf0(a.seed - b.seed)

\* self._mat is a defaultdict(dict): reading self._mat[name] stores an empty
\* dict under a name that has none
MatGet(mat, n) == IF n \in DOMAIN mat THEN mat[n] ELSE <<>>

MatTouch(mat, n) ==
    IF n \in DOMAIN mat THEN mat ELSE [k \in DOMAIN mat \cup {n} |-> IF k = n THEN <<>> ELSE mat[k]]

\* ResistanceCompare with the two one-direction fallbacks exchanged
ResistanceCompareSwapped(m, a, b) ==
    IF TeamEq(a, b) THEN Half
    ELSE LET a_to_b == b.name \in DOMAIN MatGet(m.mat, a.name)
             b_to_a == a.name \in DOMAIN MatGet(m.mat, b.name)
         IN  CASE ~a_to_b /\ ~b_to_a -> Rat(b.seed, a.seed + b.seed)
               [] ~a_to_b /\ b_to_a -> <<99, 100>>
               [] a_to_b /\ ~b_to_a -> <<1, 100>>
               [] a_to_b /\ b_to_a ->
                    LET R_AB == m.mat[a.name][b.name]
                        R_BA == m.mat[b.name][a.name]
                    IN  RDiv(R_BA, RAdd(R_AB, R_BA))

ResistanceCompare(m, a, b) ==
    IF TeamEq(a, b) THEN Half
    ELSE LET a_to_b == b.name \in DOMAIN MatGet(m.mat, a.name)
             b_to_a == a.name \in DOMAIN MatGet(m.mat, b.name)
         IN  CASE ~a_to_b /\ ~b_to_a -> Rat(b.seed, a.seed + b.seed)
               [] ~a_to_b /\ b_to_a -> <<1, 100>>
               [] a_to_b /\ ~b_to_a -> <<99, 100>>
               [] a_to_b /\ b_to_a ->
                    LET R_AB == m.mat[a.name][b.name]
                        R_BA == m.mat[b.name][a.name]
                    IN  RDiv(R_BA, RAdd(R_AB, R_BA))

\* the model after compare_teams(a, b): only the resistance model's table changes
ResistanceAfter(m, a, b) ==
    IF TeamEq(a, b) THEN m
    ELSE [m EXCEPT !.mat = MatTouch(MatTouch(m.mat, a.name), b.name)]

----------------------------------------------------------------------------
(* Season summaries and the path-weight comparator. *)

\* a record of the season summary: the first team, the second team and
\* whether the first team won
Game(h, a, w) == [home |-> h, away |-> a, win |-> w]

\* "-".join(name.split(" ")): the only name with a space is "St X"
Dashed(name) == IF name = "St X" THEN "St-X" ELSE name

get_teams(total_summary) == {Dashed(total_summary[i].home) : i \in 1..Len(total_summary)}

\* the condition under which a fit counts a game
Qualifies(game, teams) == game.home \in teams /\ game.away \in teams /\ game.win

\* G[u][v]["weight"] after the loop over the summary: the number of qualifying
\* games u won against v
WinCount(total_summary, teams, u, v) ==
    Cardinality({i \in 1..Len(total_summary) :
                    /\ Qualifies(total_summary[i], teams)
                    /\ total_summary[i].home = u
                    /\ total_summary[i].away = v})

\* the directed win graph: its edges, its nodes (the ends of the edges) and the
\* win count of every edge
WinGraph(total_summary) ==
    LET teams == get_teams(total_summary)
        edges == {e \in teams \X teams : WinCount(total_summary, teams, e[1], e[2]) > 0}
    IN  [nodes |-> {e[1] : e \in edges} \cup {e[2] : e \in edges},
         edges |-> edges,
         count |-> [e \in edges |-> WinCount(total_summary, teams, e[1], e[2])]]

\* math.inf, and float arithmetic on path lengths that may be inf
Inf == <<1, 0>>

IsInf(x) == x = Inf

DAdd(x, w) == IF IsInf(x) THEN Inf ELSE RAdd(x, w)

DLt(x, y) == IF IsInf(x) THEN FALSE ELSE IF IsInf(y) THEN TRUE ELSE RLt(x, y)

DMin2(x, y) == IF DLt(y, x) THEN y ELSE x

\* the edge weight after inversion: 1 / count ** 2
InvertedWeight(G, u, v) == Rat(1, G.count[<<u, v>>] * G.count[<<u, v>>])

\* the loop of dijkstra over pq.popitems(): pop the node of least priority,
\* record its distance, relax its neighbours still in the queue
RECURSIVE DijkstraLoop(_, _, _)
DijkstraLoop(G, pq, distances) ==
    IF DOMAIN pq = {} THEN distances
    ELSE LET cur == CHOOSE n \in DOMAIN pq : \A k \in DOMAIN pq : ~DLt(pq[k], pq[n])
             cur_dist == pq[cur]
         IN  DijkstraLoop(
                 G,
                 [n \in DOMAIN pq \ {cur} |->
                     IF <<cur, n>> \in G.edges
                     THEN DMin2(pq[n], DAdd(cur_dist, InvertedWeight(G, cur, n)))
                     ELSE pq[n]],
                 [n \in DOMAIN distances \cup {cur} |->
                     IF n = cur THEN cur_dist ELSE distances[n]])

dijkstra(G, start) ==
    DijkstraLoop(G, [n \in G.nodes |-> IF n = start THEN Zero ELSE Inf], <<>>)

\* PathWeightComparator.__rank: the table min_pairs that is persisted and loaded
PathWeightRank(total_summary) ==
    LET G == WinGraph(total_summary)
    IN  [kind |-> "pathweight", mat |-> [start \in G.nodes |-> dijkstra(G, start)]]

\* sp_BA / (sp_AB + sp_BA) in float arithmetic: inf / inf is nan, x / inf is 0.0
PathWeightRatio(sp_AB, sp_BA) ==
    CASE IsInf(sp_BA) -> NaN
      [] IsInf(sp_AB) -> Zero
      [] OTHER -> RDiv(sp_BA, RAdd(sp_AB, sp_BA))

PathWeightCompare(m, a, b) ==
    IF TeamEq(a, b) THEN Half
    ELSE LET sp_AB == m.mat[a.name][b.name]
             sp_BA == m.mat[b.name][a.name]
         IN  PathWeightRatio(sp_AB, sp_BA)

\* self._mat[a.name][b.name] raises KeyError for a name that is no node of the graph
PathWeightRaises(m, a, b) ==
    /\ ~TeamEq(a, b)
    /\ (a.name \notin DOMAIN m.mat \/ b.name \notin DOMAIN m.mat)

----------------------------------------------------------------------------
(* The Elo fit (EloComparator.__rank) and the summary it is fitted on. *)

\* kwargs.get("initial_rating", 1750)
DefaultRating == 1750

RECURSIVE Pow3(_)
Pow3(k) == IF k = 0 THEN 1 ELSE 3 * Pow3(k - 1)

\* the gap of two ratings in steps of 200 points, rounded to the nearest step
GapSteps(rA, rB) ==
    LET d == RSub(rA, rB)
    IN  IF d[1] >= 0 THEN (d[1] + 100 * d[2]) \div (200 * d[2])
        ELSE -((-d[1] + 100 * d[2]) \div (200 * d[2]))

\* eA = qA / (qA + qB) with q = 10 ** (rating / 400): the float is stood for by
\* the rational with the gap of the ratings rounded to steps of 200 points and
\* 10 ** 0.5 taken as 3
EloExpected(rA, rB) ==
    LET k == GapSteps(rA, rB)
    IN  IF k >= 0 THEN Rat(Pow3(k), Pow3(k) + 1) ELSE Rat(1, 1 + Pow3(-k))

\* the K-factor with the tier 1700..2000 stretched down to 1500
EloKGap(min_rating) ==
    IF RLt(min_rating, <<1500, 1>>) THEN 32
    ELSE IF RLe(<<1500, 1>>, min_rating) /\ RLe(min_rating, <<2000, 1>>) THEN 24
    ELSE 16

\* the K-factor chosen from min_rating
EloK(min_rating) ==
    IF RLt(min_rating, <<1500, 1>>) THEN 32
    ELSE IF RLe(<<1700, 1>>, min_rating) /\ RLe(min_rating, <<2000, 1>>) THEN 24
    ELSE 16

\* EloUpdate leaving the second team's rating as it was
EloUpdateWinnerOnly(ratings, teams, game) ==
    IF ~Qualifies(game, teams) THEN ratings
    ELSE LET rA == ratings[game.home]
             rB == ratings[game.away]
             eA == EloExpected(rA, rB)
             K == <<EloK(PyMin2(rA, rB)), 1>>
         IN  [ratings EXCEPT ![game.home] = RAdd(rA, RMul(K, RSub(One, eA)))]

\* the body of the loop over the games: ratings after one game record
EloUpdate(ratings, teams, game) ==
    IF ~Qualifies(game, teams) THEN ratings
    ELSE LET rA == ratings[game.home]
             rB == ratings[game.away]
             eA == EloExpected(rA, rB)
             eB == EloExpected(rB, rA)
             K == <<EloK(PyMin2(rA, rB)), 1>>
         IN  [t \in DOMAIN ratings |->
                 IF t = game.home THEN RAdd(rA, RMul(K, RSub(One, eA)))
                 ELSE IF t = game.away THEN RAdd(rB, RMul(K, RSub(Zero, eB)))
                 ELSE ratings[t]]

\* what the loop body did, for the record of the fit: the lower pre-game
\* rating, the K-factor, the ratings before and after
EloUpdateRecord(ratings, teams, game) ==
    [counted |-> Qualifies(game, teams),
     game |-> game,
     min_rating |-> IF Qualifies(game, teams)
                    THEN PyMin2(ratings[game.home], ratings[game.away]) ELSE Zero,
     K |-> IF Qualifies(game, teams)
           THEN EloK(PyMin2(ratings[game.home], ratings[game.away])) ELSE 0,
     before |-> ratings,
     after |-> EloUpdate(ratings, teams, game)]

\* the ratings a fit starts from: the initial rating for every team, replaced by
\* the previous year's rating for the teams that have one
EloStart(teams, initial_rating, prev_year_ratings) ==
    [t \in teams |->
        IF t \in DOMAIN prev_year_ratings THEN prev_year_ratings[t] ELSE <<initial_rating, 1>>]

----------------------------------------------------------------------------
(* The fits of the PageRank and Bradley-Terry models and the loops over    *)
(* the games that the five season models share.  A matrix over the teams   *)
(* is a function on pairs <<row, column>>.                                 *)

\* the four factors of a game record, each the pair <<first team's value,
\* second team's value>>
Stats(eFGp, TOVp, ORBp, FTR) == [eFGp |-> eFGp, TOVp |-> TOVp, ORBp |-> ORBp, FTR |-> FTR]

\* a record of the season summary with its four factors
StatGame(h, a, w, s) == [home |-> h, away |-> a, win |-> w, stats |-> s]

\* GameWeights.WEIGHTS = [50, 13.3333, 6.6666, 8.3333, 5], in units of 1/WeightUnit
WeightUnit == 10000

WEIGHTS == <<500000, 133333, 66666, 83333, 50000>>

\* PageRankScores comparing the turnover percentage like the other factors
PageRankScoresTurnover(game) ==
    LET s == game.stats
    IN  [home |-> WEIGHTS[1]
                  + (IF s.eFGp[1] > s.eFGp[2] THEN WEIGHTS[2] ELSE 0)
                  + (IF s.TOVp[1] > s.TOVp[2] THEN WEIGHTS[3] ELSE 0)
                  + (IF s.ORBp[1] > s.ORBp[2] THEN WEIGHTS[4] ELSE 0)
                  + (IF s.FTR[1] > s.FTR[2] THEN WEIGHTS[5] ELSE 0),
         away |-> (IF s.eFGp[2] > s.eFGp[1] THEN WEIGHTS[2] ELSE 0)
                  + (IF s.TOVp[2] > s.TOVp[1] THEN WEIGHTS[3] ELSE 0)
                  + (IF s.ORBp[2] > s.ORBp[1] THEN WEIGHTS[4] ELSE 0)
                  + (IF s.FTR[2] > s.FTR[1] THEN WEIGHTS[5] ELSE 0)]

\* home_pr_score and away_pr_score of a game the first team won: the win
\* weight, and for each factor its weight to the team that leads it (for the
\* turnover percentage, the team with the lower value)
PageRankScores(game) ==
    LET s == game.stats
    IN  [home |-> WEIGHTS[1]
                  + (IF s.eFGp[1] > s.eFGp[2] THEN WEIGHTS[2] ELSE 0)
                  + (IF s.TOVp[1] < s.TOVp[2] THEN WEIGHTS[3] ELSE 0)
                  + (IF s.ORBp[1] > s.ORBp[2] THEN WEIGHTS[4] ELSE 0)
                  + (IF s.FTR[1] > s.FTR[2] THEN WEIGHTS[5] ELSE 0),
         away |-> (IF s.eFGp[2] > s.eFGp[1] THEN WEIGHTS[2] ELSE 0)
                  + (IF s.TOVp[2] < s.TOVp[1] THEN WEIGHTS[3] ELSE 0)
                  + (IF s.ORBp[2] > s.ORBp[1] THEN WEIGHTS[4] ELSE 0)
                  + (IF s.FTR[2] > s.FTR[1] THEN WEIGHTS[5] ELSE 0)]

\* np.zeros((num_teams, num_teams))
ZeroMat(teams) == [e \in teams \X teams |-> 0]

\* the body of the PageRank loop over the games
PageRankGame(mat, teams, game) ==
    IF ~Qualifies(game, teams) THEN mat
    ELSE LET sc == PageRankScores(game)
             m1 == [mat EXCEPT ![<<game.home, game.away>>] = @ + sc.home]
         IN  [m1 EXCEPT ![<<game.away, game.home>>] = @ + sc.away]

\* CountGame counting a game whoever won it
CountGameAnyResult(mat, teams, game) ==
    IF ~(game.home \in teams /\ game.away \in teams) THEN mat
    ELSE [mat EXCEPT ![<<game.home, game.away>>] = @ + 1]

\* the body of the loop over the games of the Bradley-Terry, path-weight and
\* resistance fits: one more win of the first team over the second
CountGame(mat, teams, game) ==
    IF ~Qualifies(game, teams) THEN mat
    ELSE [mat EXCEPT ![<<game.home, game.away>>] = @ + 1]

\* mat *= alpha; mat += (1 - alpha) * np.ones((n, n)) / n
PageRankBlend(mat, teams, alpha) ==
    [e \in teams \X teams |->
        RAdd(RMul(alpha, Rat(mat[e], WeightUnit)),
             RDiv(RSub(One, alpha), <<Cardinality(teams), 1>>))]

\* mat @ vec
MatVec(mat, vec, teams) ==
    [i \in teams |-> RSumSet([j \in teams |-> RMul(mat[<<i, j>>], vec[j])], teams)]

\* one PageRank iteration without the rescaling
PageRankIterateUnscaled(mat, vec, teams) == MatVec(mat, vec, teams)

\* one PageRank iteration: vec = mat @ vec; vec *= num_teams / sum(vec)
PageRankIterate(mat, vec, teams) ==
    LET v == MatVec(mat, vec, teams)
        scale == RDiv(<<Cardinality(teams), 1>>, RSumSet(v, teams))
    IN  [i \in teams |-> RMul(v[i], scale)]

\* the Bradley-Terry vector before the iterations: 1 / n for every team,
\* replaced by the previous year's strength where there is one, then
\* vec /= sum(vec)
BTStart(teams, prev_year_rankings) ==
    LET v == [t \in teams |->
                 IF t \in DOMAIN prev_year_rankings THEN prev_year_rankings[t]
                 ELSE Rat(1, Cardinality(teams))]
    IN  [t \in teams |-> RDiv(v[t], RSumSet(v, teams))]

\* new_vec[i] = numerator / denominator (0.0 / 0 is nan)
BTEntry(mat, vec, teams, i) ==
    LET numerator == <<SumOver([j \in teams |-> mat[<<i, j>>]], teams), 1>>
        denominator ==
            RSumSet([j \in teams \ {i} |->
                        RDiv(<<mat[<<i, j>>] + mat[<<j, i>>], 1>>, RAdd(vec[i], vec[j]))],
                    teams \ {i})
    IN  RDiv(numerator, denominator)

\* one Bradley-Terry iteration: the new entries, every entry equal to 0 set
\* to 1 / num_teams ** 2, then new_vec /= sum(new_vec)
BTIterate(mat, vec, teams) ==
    LET n == Cardinality(teams)
        new_vec == [i \in teams |-> BTEntry(mat, vec, teams, i)]
        guarded == [i \in teams |-> IF new_vec[i] = Zero THEN Rat(1, n * n) ELSE new_vec[i]]
    IN  [i \in teams |-> RDiv(guarded[i], RSumSet(guarded, teams))]

RECURSIVE BTIterations(_, _, _, _)
BTIterations(mat, vec, teams, iters) ==
    IF iters = 0 THEN vec ELSE BTIterate(mat, BTIterations(mat, vec, teams, iters - 1), teams)

RECURSIVE CountGames(_, _, _)
CountGames(total_summary, teams, k) ==
    IF k = 0 THEN ZeroMat(teams)
    ELSE CountGame(CountGames(total_summary, teams, k - 1), teams, total_summary[k])

\* the rankings a Bradley-Terry fit with first_year=True serializes
BTRankFirstYear(total_summary, iters) ==
    LET teams == get_teams(total_summary)
    IN  BTIterations(CountGames(total_summary, teams, Len(total_summary)),
                     BTStart(teams, <<>>), teams, iters)

RECURSIVE CompareTeams(_, _, _)
HybridConfs(m, a, b) == [i \in 1..Len(m.comparators) |-> CompareTeams(m.comparators[i], a, b)]

\* HybridCompare returning the less confident extreme
HybridCompareLeast(m, a, b) ==
    LET confs == HybridConfs(m, a, b)
        min_conf == PyMin(confs)
        max_conf == PyMax(confs)
    IN  IF RGe(max_conf, RSub(One, min_conf)) THEN min_conf ELSE max_conf

HybridCompare(m, a, b) ==
    LET confs == HybridConfs(m, a, b)
        min_conf == PyMin(confs)
        max_conf == PyMax(confs)
    IN  IF RGe(max_conf, RSub(One, min_conf)) THEN max_conf ELSE min_conf

CompareTeams(m, a, b) ==
    CASE m.kind = "pagerank" -> PageRankCompare(m, a, b)
      [] m.kind = "elo" -> EloCompare(m, a, b)
      [] m.kind = "bradleyterry" -> BradleyTerryCompare(m, a, b)
      [] m.kind = "seed" -> SeedCompare(m, a, b)
      [] m.kind = "resistance" -> ResistanceCompare(m, a, b)
      [] m.kind = "pathweight" -> PathWeightCompare(m, a, b)
      [] m.kind = "hybrid" -> HybridCompare(m, a, b)
      [] m.kind = "constant" -> m.value

\* self._rankings[name] raises KeyError for a name outside the fitted universe
RECURSIVE Raises(_, _, _)
Raises(m, a, b) ==
    CASE m.kind \in {"pagerank", "elo", "bradleyterry"} ->
            a.name \notin DOMAIN m.rankings \/ b.name \notin DOMAIN m.rankings
      [] m.kind = "pathweight" -> PathWeightRaises(m, a, b)
      [] m.kind = "hybrid" -> \E i \in 1..Len(m.comparators) : Raises(m.comparators[i], a, b)
      [] OTHER -> FALSE

ModelAfter(m, a, b) ==
    IF m.kind = "resistance" THEN ResistanceAfter(m, a, b) ELSE m

----------------------------------------------------------------------------
(* Building a model: TeamComparator.get_total_summary and the constructor  *)
(* of EloComparator, step by step.  The build record holds the position of *)
(* the build and the locals of the calls in progress.                      *)

\* the year a model is built for; the fit of the year before is year - 1
BuildYear == 2

Years == {BuildYear - 1, BuildYear}

\* what get_total_summary returns: None, or the list of game records
NoneSummary == [none |-> TRUE, games |-> <<>>]

SummaryOf(games) == [none |-> FALSE, games |-> games]

\* a summary file ./summaries/<gender>/<year>/total_summary.p
NoSummaryFile == [exists |-> FALSE, games |-> <<>>]

SummaryFile(games) == [exists |-> TRUE, games |-> games]

\* a rankings file ./predictions/<gender>/<year>_elo_rankings.p
NoRankingsFile == [exists |-> FALSE, rankings |-> <<>>]

RankingsFile(rankings) == [exists |-> TRUE, rankings |-> rankings]

NoModel == [none |-> TRUE]

NoUpdate ==
    [counted |-> FALSE, game |-> Game("", "", FALSE), min_rating |-> Zero, K |-> 0,
     before |-> <<>>, after |-> <<>>]

IdleBuild ==
    [pc |-> "idle", year |-> BuildYear, first_year |-> FALSE,
     initial_rating |-> DefaultRating,
     summary |-> NoneSummary, outer |-> NoneSummary,
     ratings |-> <<>>, start |-> <<>>, k |-> 0,
     harvests |-> [y \in Years |-> 0], reads |-> [y \in Years |-> 0],
     raisedYear |-> 0, raisedOn |-> 0, error |-> "", last |-> NoUpdate,
     persisted |-> [y \in Years |-> NoRankingsFile]]

\* get_total_summary: pickle.load of the summary file, or FileNotFoundError
ReadSummaryFile(b, f) ==
    IF f.summary[b.year].exists
    THEN [b EXCEPT !.reads[b.year] = @ + 1,
                   !.summary = SummaryOf(f.summary[b.year].games),
                   !.pc = "teams"]
    ELSE [b EXCEPT !.reads[b.year] = @ + 1, !.pc = "harvest"]

\* a failed harvest after which get_total_summary is called again
HarvestRaisedRetry(b) ==
    [b EXCEPT !.harvests[b.year] = @ + 1,
              !.raisedYear = b.year,
              !.raisedOn = b.harvests[b.year] + 1,
              !.pc = "summary"]

\* get_total_summary: harvest raised, the except clause returns None
HarvestRaised(b) ==
    [b EXCEPT !.harvests[b.year] = @ + 1,
              !.raisedYear = b.year,
              !.raisedOn = b.harvests[b.year] + 1,
              !.summary = NoneSummary,
              !.pc = "teams"]

\* get_total_summary: harvest returned, get_total_summary is called again
HarvestReturned(b) == [b EXCEPT !.harvests[b.year] = @ + 1, !.pc = "summary"]

\* __rank after get_total_summary: get_teams(None) raises TypeError; the fit of
\* the build year first runs the fit of the year before (first_year=True); the
\* fit of the year before starts its ratings at the default
AfterSummary(b) ==
    IF b.summary.none THEN [b EXCEPT !.pc = "failed", !.error = "TypeError"]
    ELSE IF ~b.first_year
    THEN [b EXCEPT !.outer = b.summary, !.year = b.year - 1, !.first_year = TRUE,
                   !.pc = "summary"]
    ELSE [b EXCEPT !.ratings = EloStart(get_teams(b.summary.games), DefaultRating, <<>>),
                   !.start = EloStart(get_teams(b.summary.games), DefaultRating, <<>>),
                   !.k = 1, !.pc = "games"]

\* one pass of the loop over the games
AfterGame(b) ==
    LET u == EloUpdateRecord(b.ratings, get_teams(b.summary.games), b.summary.games[b.k])
    IN  [b EXCEPT !.last = u, !.ratings = u.after, !.k = b.k + 1]

\* the fit of the year before has returned: its rankings are loaded and
\* overwrite the initial ratings of the teams they name
AfterPreviousYear(b) ==
    [b EXCEPT !.ratings = EloStart(get_teams(b.outer.games), b.initial_rating, b.ratings),
              !.start = EloStart(get_teams(b.outer.games), b.initial_rating, b.ratings),
              !.summary = b.outer, !.year = b.year + 1, !.first_year = FALSE,
              !.k = 1, !.last = NoUpdate]

----------------------------------------------------------------------------
(* A fit (__rank) of one of the five season models, from get_teams to      *)
(* serialize_results, step by step.                                        *)

Families == {"pagerank", "elo", "bradleyterry", "pathweight", "resistance"}

\* what the last pass of the loop over the games did to the matrix (or the
\* graph's edge weights) and to the ratings
NoStep ==
    [stepped |-> FALSE, counted |-> FALSE, game |-> [none |-> TRUE],
     before |-> [mat |-> <<>>, ratings |-> <<>>], after |-> [mat |-> <<>>, ratings |-> <<>>]]

\* the locals of __rank after get_total_summary and get_teams
StartFit(family, total_summary, alpha, iters, prev_year_rankings) ==
    LET teams == get_teams(total_summary)
    IN  [family |-> family, pc |-> "games", summary |-> total_summary, teams |-> teams,
         k |-> 1, mat |-> ZeroMat(teams),
         ratings |-> IF family = "elo" THEN EloStart(teams, DefaultRating, <<>>) ELSE <<>>,
         pmat |-> <<>>,
         vec |-> IF family = "pagerank" THEN [t \in teams |-> One] ELSE <<>>,
         alpha |-> alpha, iters |-> iters, iter |-> 0,
         prev_year_rankings |-> prev_year_rankings,
         error |-> "", rankings |-> <<>>, last |-> NoStep]

\* one pass of the loop over the games, by family
FitGameStep(b) ==
    LET game == b.summary[b.k]
        mat == CASE b.family = "pagerank" -> PageRankGame(b.mat, b.teams, game)
                 [] b.family = "elo" -> b.mat
                 [] OTHER -> CountGame(b.mat, b.teams, game)
        ratings == IF b.family = "elo" THEN EloUpdate(b.ratings, b.teams, game) ELSE b.ratings
    IN  [b EXCEPT !.k = b.k + 1, !.mat = mat, !.ratings = ratings,
                  !.last = [stepped |-> TRUE, counted |-> Qualifies(game, b.teams),
                            game |-> game,
                            before |-> [mat |-> b.mat, ratings |-> b.ratings],
                            after |-> [mat |-> mat, ratings |-> ratings]]]

\* after the loop: the PageRank matrix is blended; the Bradley-Terry vector
\* is initialised; the other fits have nothing left but to serialize
AfterGames(b) ==
    CASE b.family = "pagerank" ->
            [b EXCEPT !.pmat = PageRankBlend(b.mat, b.teams, b.alpha), !.pc = "iterate"]
      [] b.family = "bradleyterry" ->
            [b EXCEPT !.vec = BTStart(b.teams, b.prev_year_rankings), !.pc = "iterate"]
      [] OTHER -> [b EXCEPT !.pc = "ranked"]

\* one iteration of the PageRank or Bradley-Terry loop
IterateStep(b) ==
    [b EXCEPT !.iter = b.iter + 1,
              !.vec = IF b.family = "pagerank" THEN PageRankIterate(b.pmat, b.vec, b.teams)
                      ELSE BTIterate(b.mat, b.vec, b.teams),
              !.pc = IF b.iter + 1 = b.iters THEN "ranked" ELSE "iterate"]

\* with no team at all the first iteration divides by zero: num_teams /
\* sum(vec) is 0 / 0 in the PageRank loop, 1 / num_teams ** 2 is 1 / 0 in the
\* Bradley-Terry loop
IterateRaised(b) == [b EXCEPT !.pc = "failed", !.error = "ZeroDivisionError"]

\* the rankings dict handed to serialize_results
Ranked(b) ==
    [b EXCEPT !.pc = "done",
              !.rankings = CASE b.family \in {"pagerank", "bradleyterry"} -> b.vec
                             [] b.family = "elo" -> b.ratings
                             [] OTHER -> <<>>]

----------------------------------------------------------------------------
(* The bounded depth-first path enumeration of the resistance model        *)
(* (find_all_paths), one pass of its while loop at a time.                 *)

\* set(G.neighbors(cur))
Neighbors(G, cur) == {v \in G.nodes : <<cur, v>> \in G.edges}

\* the orders in which a set may be iterated
Orderings(S) ==
    {q \in [1..Cardinality(S) -> S] : \A i, j \in 1..Cardinality(S) : i # j => q[i] # q[j]}

InPath(path, n) == \E i \in 1..Len(path) : path[i] = n

\* PushNeighbors without the test that the neighbor is not yet on the path
RECURSIVE PushNeighborsRevisit(_, _, _, _, _)
PushNeighborsRevisit(stack, path_to_cur, ns, max_depth, k) ==
    IF k = 0 THEN stack
    ELSE LET s == PushNeighborsRevisit(stack, path_to_cur, ns, max_depth, k - 1)
         IN  IF Len(path_to_cur) < max_depth
             THEN Append(s, [cur |-> ns[k], path |-> Append(path_to_cur, ns[k])])
             ELSE s

\* the for-loop over the first k neighbors in the iteration order ns
RECURSIVE PushNeighbors(_, _, _, _, _)
PushNeighbors(stack, path_to_cur, ns, max_depth, k) ==
    IF k = 0 THEN stack
    ELSE LET s == PushNeighbors(stack, path_to_cur, ns, max_depth, k - 1)
         IN  IF ~InPath(path_to_cur, ns[k]) /\ Len(path_to_cur) < max_depth
             THEN Append(s, [cur |-> ns[k], path |-> Append(path_to_cur, ns[k])])
             ELSE s

\* the locals of find_all_paths(start) before the while loop
StartSearch(G, start, max_paths, max_depth) ==
    [pc |-> "search", G |-> G, start |-> start, max_paths |-> max_paths,
     max_depth |-> max_depth,
     stack |-> <<[cur |-> start, path |-> <<start>>]>>, paths |-> <<>>,
     passes |-> 0, returned |-> <<>>]

\* while stack and len(paths) < max_paths
SearchGoesOn(b) == b.stack # <<>> /\ Len(b.paths) < b.max_paths

\* one pass of the while loop, the neighbors iterated in the order ns
SearchStep(b, ns) ==
    LET top == b.stack[Len(b.stack)]
        rest == SubSeq(b.stack, 1, Len(b.stack) - 1)
    IN  [b EXCEPT !.stack = PushNeighbors(rest, top.path, ns, b.max_depth, Len(ns)),
                  !.paths = Append(b.paths, top.path),
                  !.passes = b.passes + 1]

\* return paths[1:]
SearchReturn(b) ==
    [b EXCEPT !.pc = "returned",
              !.returned = IF b.paths = <<>> THEN <<>> ELSE Tail(b.paths)]

----------------------------------------------------------------------------
(* GameResult and Tournament.  A GameResult's probabilities dict is the    *)
(* sequence of its entries [team, p] in insertion order, keyed by team.    *)
(* A Tournament is [leaf |-> GameResult] or [left |-> T, right |-> T].     *)

single_team(team) == <<[team |-> team, p |-> One]>>

IsLeaf(t) == "leaf" \in DOMAIN t

SingleTeamTournament(team) == [leaf |-> single_team(team)]

\* a nested tuple is a Team or [l |-> nested, r |-> nested]
IsTeam(t) == "name" \in DOMAIN t

RECURSIVE from_nested_tuple(_)
from_nested_tuple(t) ==
    IF IsTeam(t) THEN SingleTeamTournament(t)
    ELSE [left |-> from_nested_tuple(t.l), right |-> from_nested_tuple(t.r)]

RECURSIVE from_team_list(_)
from_team_list(teams) ==
    IF Len(teams) = 1 THEN SingleTeamTournament(teams[1])
    ELSE LET half == Len(teams) \div 2
         IN  [left |-> from_team_list(SubSeq(teams, 1, half)),
              right |-> from_team_list(SubSeq(teams, half + 1, Len(teams)))]

\* x & y on machine integers; 0 & -1 is 0
RECURSIVE BitAnd(_, _)
BitAnd(x, y) ==
    IF x = 0 \/ y = 0 THEN 0
    ELSE (x % 2) * (y % 2) + 2 * BitAnd(x \div 2, y \div 2)

\* a power-of-two test that only rejects odd counts
NotPowerOfTwoOdd(num_teams) == num_teams % 2 # 0

\* num_teams & (num_teams - 1) != 0
NotPowerOfTwo(num_teams) == BitAnd(num_teams, num_teams - 1) # 0

\* get_seedings yielding the mirrored seed before the seed
RECURSIVE get_seedings_mirrored(_)
get_seedings_mirrored(size) ==
    IF size = 1 THEN <<1>>
    ELSE LET half == get_seedings_mirrored(size \div 2)
         IN  [i \in 1..(2 * Len(half)) |->
                 IF i % 2 = 1 THEN size - half[(i + 1) \div 2] + 1 ELSE half[i \div 2]]

\* the seeds get_seedings(size) yields, in order
RECURSIVE get_seedings(_)
get_seedings(size) ==
    IF size = 1 THEN <<1>>
    ELSE LET half == get_seedings(size \div 2)
         IN  [i \in 1..(2 * Len(half)) |->
                 IF i % 2 = 1 THEN half[(i + 1) \div 2] ELSE size - half[i \div 2] + 1]

\* Team(name, seed) as from_name_list creates it
SeededTeam(name, seed) == [name |-> name, seed |-> seed]

\* an entry of the teams list that the loops of from_name_list leave as None
NoneTeam == [name |-> "None", seed |-> 0]

\* the teams list of from_name_list after its two loops: position
\* quadrant * size + i holds names[quadrant * size + i] with the i-th seed
NameListTeams(names, quadrants) ==
    LET num_teams == Len(names)
        size == num_teams \div quadrants
        seeds == get_seedings(size)
    IN  [j \in 1..num_teams |->
            IF \E i \in 0..(Len(seeds) - 1), quadrant \in 0..(quadrants - 1) :
                   quadrant * size + i = j - 1
            THEN SeededTeam(names[j], seeds[((j - 1) % size) + 1])
            ELSE NoneTeam]

\* from_name_list: a ValueError, or the tournament of the seeded teams
from_name_list(names, quadrants) ==
    IF Len(names) < quadrants THEN [raised |-> TRUE, t |-> [none |-> TRUE]]
    ELSE IF NotPowerOfTwo(Len(names)) THEN [raised |-> TRUE, t |-> [none |-> TRUE]]
    ELSE [raised |-> FALSE, t |-> from_team_list(NameListTeams(names, quadrants))]

RECURSIVE TLen(_)
TLen(t) == IF IsLeaf(t) THEN 1 ELSE TLen(t.left) + TLen(t.right)

\* position of the entry whose key equals team, 0 when there is none
DictIndex(d, team) ==
    IF \E i \in 1..Len(d) : TeamEq(d[i].team, team)
    THEN CHOOSE i \in 1..Len(d) : TeamEq(d[i].team, team)
    ELSE 0

\* defaultdict(float): a missing key reads as 0.0
DictGet(d, team) == IF DictIndex(d, team) = 0 THEN Zero ELSE d[DictIndex(d, team)].p

\* DictAdd storing v over the value already held: result[team] = v
DictSet(d, team, v) ==
    IF DictIndex(d, team) = 0 THEN Append(d, [team |-> team, p |-> RAdd(Zero, v)])
    ELSE [d EXCEPT ![DictIndex(d, team)].p = v]

\* result[team] += v
DictAdd(d, team, v) ==
    IF DictIndex(d, team) = 0 THEN Append(d, [team |-> team, p |-> RAdd(Zero, v)])
    ELSE [d EXCEPT ![DictIndex(d, team)].p = RAdd(@, v)]

\* RoundTerm asking for the opponent's chance: compare_teams(tb, ta)
RoundTermSwapped(e, other, m) ==
    RMul(e.p, RSum([j \in 1..Len(other) |-> RMul(other[j].p, CompareTeams(m, other[j].team, e.team))]))

\* RoundTerm without the opponent's probability pb
RoundTermUnweighted(e, other, m) ==
    RMul(e.p, RSum([j \in 1..Len(other) |-> CompareTeams(m, e.team, other[j].team)]))

\* pa * sum(pb * compare_teams(ta, tb) for (tb, pb) in other)
RoundTerm(e, other, m) ==
    RMul(e.p, RSum([j \in 1..Len(other) |-> RMul(other[j].p, CompareTeams(m, e.team, other[j].team))]))

\* one for-loop of _round over the first k entries of xs
RECURSIVE RoundLoop(_, _, _, _, _)
RoundLoop(result, xs, ys, m, k) ==
    IF k = 0 THEN result
    ELSE DictAdd(RoundLoop(result, xs, ys, m, k - 1), xs[k].team, RoundTerm(xs[k], ys, m))

\* _round without its second for-loop: the teams of b get no entry
RoundFirstLoop(a, b, m) == RoundLoop(<<>>, a, b, m, Len(a))

Round(a, b, m) == RoundLoop(RoundLoop(<<>>, a, b, m, Len(a)), b, a, m, Len(b))

\* ArgMaxIdx keeping the last of several equal maxima
RECURSIVE ArgMaxIdxLast(_, _)
ArgMaxIdxLast(d, k) ==
    IF k = 1 THEN 1
    ELSE LET best == ArgMaxIdxLast(d, k - 1)
         IN  IF RGe(d[k].p, d[best].p) THEN k ELSE best

\* max(d, key=d.get): the first key whose value no later key exceeds
RECURSIVE ArgMaxIdx(_, _)
ArgMaxIdx(d, k) ==
    IF k = 1 THEN 1
    ELSE LET best == ArgMaxIdx(d, k - 1)
         IN  IF RGt(d[k].p, d[best].p) THEN k ELSE best

ArgMax(d) == d[ArgMaxIdx(d, Len(d))].team

RECURSIVE Leaves(_)
Leaves(t) == IF IsLeaf(t) THEN <<t.leaf>> ELSE Leaves(t.left) \o Leaves(t.right)

\* what play_round prints about a game: the winner, the loser, the upset mark
GameRecord(a, b, matchup_result, left_winner, right_winner, matchup_winner) ==
    LET matchup_loser == IF TeamEq(matchup_winner, right_winner) THEN left_winner ELSE right_winner
    IN  [a |-> a, b |-> b, result |-> matchup_result,
         winner |-> matchup_winner, loser |-> matchup_loser,
         is_upset |-> matchup_winner.seed > matchup_loser.seed]

GameOf(a, b, matchup_result) ==
    GameRecord(a, b, matchup_result, ArgMax(a), ArgMax(b), ArgMax(matchup_result))

\* the game a node with two leaf children plays
PlayGame(left, right, m) == GameOf(left.leaf, right.leaf, Round(left.leaf, right.leaf, m))

PlayedNode(g) == [t |-> [leaf |-> g.result], games |-> <<g>>]

PlayedPair(l, r) == [t |-> [left |-> l.t, right |-> r.t], games |-> l.games \o r.games]

\* play_round that does not descend into the right subtree
RECURSIVE play_round_left(_, _)
play_round_left(t, m) ==
    IF IsLeaf(t) THEN [t |-> t, games |-> <<>>]
    ELSE IF IsLeaf(t.left) /\ IsLeaf(t.right)
         THEN PlayedNode(PlayGame(t.left, t.right, m))
         ELSE PlayedPair(play_round_left(t.left, m), [t |-> t.right, games |-> <<>>])

\* play_round: [t |-> the new tournament, games |-> the games played, left to right]
RECURSIVE play_round(_, _)
play_round(t, m) ==
    IF IsLeaf(t) THEN [t |-> t, games |-> <<>>]
    ELSE IF IsLeaf(t.left) /\ IsLeaf(t.right)
         THEN PlayedNode(PlayGame(t.left, t.right, m))
         ELSE PlayedPair(play_round(t.left, m), play_round(t.right, m))

round_winners(t) == [i \in 1..Len(Leaves(t)) |-> ArgMax(Leaves(t)[i])]

Max2(x, y) == IF x >= y THEN x ELSE y

RECURSIVE Depth(_)
Depth(t) == IF IsLeaf(t) THEN 0 ELSE 1 + Max2(Depth(t.left), Depth(t.right))

\* normalize_helper duplicating a shallow leaf once instead of down to max_depth
RECURSIVE normalize_helper_once(_, _, _)
normalize_helper_once(t, depth, max_depth) ==
    IF ~IsLeaf(t)
    THEN [left |-> normalize_helper_once(t.left, depth + 1, max_depth),
          right |-> normalize_helper_once(t.right, depth + 1, max_depth)]
    ELSE IF depth = max_depth THEN t
         ELSE [left |-> t, right |-> t]

RECURSIVE normalize_helper(_, _, _)
normalize_helper(t, depth, max_depth) ==
    IF ~IsLeaf(t)
    THEN [left |-> normalize_helper(t.left, depth + 1, max_depth),
          right |-> normalize_helper(t.right, depth + 1, max_depth)]
    ELSE IF depth = max_depth THEN t
         ELSE [left |-> normalize_helper(t, depth + 1, max_depth),
               right |-> normalize_helper(t, depth + 1, max_depth)]

normalize(t) == normalize_helper(t, 0, Depth(t))

----------------------------------------------------------------------------
(* Inputs: the fitted models compare_teams is called on, the comparators   *)
(* a bracket is played with, and the brackets that are built.              *)

\* fitted scores in units of 1/2: positive, summing to the number of teams
ScoreLevels == 1..4

PageRankModels ==
    {[kind |-> "pagerank", rankings |-> r, cdf |-> c] :
        r \in {x \in [Universe -> ScoreLevels] : SumOver(x, Universe) = 2 * Cardinality(Universe)},
        c \in {x \in [ScoreLevels -> 0..CdfDen] :
                 \A i, j \in ScoreLevels : i < j => x[i] < x[j]}}

EloModels == {[kind |-> "elo", rankings |-> r] : r \in [Universe -> {<<1200, 1>>, <<1600, 1>>, <<2000, 1>>}]}

BTModel(w) ==
    [kind |-> "bradleyterry",
     rankings |-> [n \in DOMAIN w |-> Rat(w[n], SumOver(w, DOMAIN w))]]

BradleyTerryModels == {BTModel(w) : w \in [Universe -> {1, 4}]}

SeedModels == {[kind |-> "seed"]}

Pairs == {p \in Universe \X Universe : p[1] # p[2]}

\* a stored table: per ordered pair no entry (0) or a resistance of 1/2 or 1
MatOf(P) ==
    [n \in {p[1] : p \in {q \in Pairs : P[q] # 0}} |->
        [k \in {p[2] : p \in {q \in Pairs : q[1] = n /\ P[q] # 0}} |-> Rat(P[<<n, k>>], 2)]]

ResistanceModels == {[kind |-> "resistance", mat |-> MatOf(P)] : P \in [Pairs -> 0..2]}

\* a season in which every game is recorded from both teams' sides, as the
\* per-team summaries are combined: W[<<x, y>>] is the number of wins of x over y
PairSeq == <<<<"A", "B">>, <<"A", "C">>, <<"B", "A">>, <<"B", "C">>, <<"C", "A">>, <<"C", "B">>>>

RECURSIVE GamesOf(_, _)
GamesOf(p, n) ==
    IF n = 0 THEN <<>>
    ELSE <<Game(p[1], p[2], TRUE), Game(p[2], p[1], FALSE)>> \o GamesOf(p, n - 1)

RECURSIVE SeasonFrom(_, _)
SeasonFrom(W, k) ==
    IF k = 0 THEN <<>> ELSE SeasonFrom(W, k - 1) \o GamesOf(PairSeq[k], W[PairSeq[k]])

PathWeightModels == {PathWeightRank(SeasonFrom(W, Len(PairSeq))) : W \in [Pairs -> 0..2]}

WrappedModels ==
    BradleyTerryModels \cup {[kind |-> "elo", rankings |-> [n \in Universe |-> <<1600, 1>>]]}

RECURSIVE SeqsUpTo(_, _)
SeqsUpTo(S, n) ==
    IF n = 0 THEN {<<>>}
    ELSE LET shorter == SeqsUpTo(S, n - 1)
         IN  shorter \cup {Append(q, x) : q \in {y \in shorter : Len(y) = n - 1}, x \in S}

HybridModels ==
    {[kind |-> "hybrid", comparators |-> cs] : cs \in SeqsUpTo(WrappedModels, MaxWrapped) \ {<<>>}}

FittedModels ==
    PageRankModels \cup EloModels \cup BradleyTerryModels \cup SeedModels
        \cup ResistanceModels \cup PathWeightModels \cup HybridModels

\* the comparators a bracket is played with: Bradley-Terry strengths over all
\* four teams, a hybrid of two of them, and the constant comparator of the
\* round-reduction scenario ("first argument always wins")
NameSeq == <<"A", "B", "C", "D">>

WeightsOf(q) == [n \in Names |-> q[CHOOSE i \in 1..4 : NameSeq[i] = n]]

ConstantOne == [kind |-> "constant", value |-> One]

\* a resistance table over all four teams, every pair sampled both ways: D is
\* seven times closer to B than B to D, all other pairs are level
MatchupTable ==
    [kind |-> "resistance",
     mat |-> [n \in Names |->
                [k \in Names \ {n} |-> IF n = "B" /\ k = "D" THEN <<7, 1>> ELSE <<1, 1>>]]]

TourneyComparators ==
    {BTModel(WeightsOf(<<1, 1, 1, 1>>)), BTModel(WeightsOf(<<3, 1, 3, 1>>)),
     BTModel(WeightsOf(<<1, 3, 3, 1>>)),
     [kind |-> "hybrid",
      comparators |-> <<BTModel(WeightsOf(<<3, 1, 3, 1>>)), BTModel(WeightsOf(<<1, 3, 3, 1>>))>>],
     ConstantOne}

\* the name after n in the bracket order, cyclically
NextName(n) == NameSeq[((CHOOSE i \in 1..4 : NameSeq[i] = n) % 4) + 1]

\* team lists in bracket order: each entry repeats the previous team (a bye)
\* or is the next team
RECURSIVE ListsOfLen(_)
ListsOfLen(n) ==
    IF n = 1 THEN {<<t>> : t \in Teams}
    ELSE UNION {{Append(q, q[n - 1]), Append(q, Team(NextName(q[n - 1].name)))} :
                    q \in ListsOfLen(n - 1)}

TeamLists == UNION {ListsOfLen(n) : n \in 1..MaxTeams}

\* the tree shapes of depth at most d with exactly n leaves
RECURSIVE Shapes(_, _)
Shapes(d, n) ==
    IF n = 1 THEN {[name |-> "?"]}
    ELSE IF d = 0 THEN {}
    ELSE UNION {{[l |-> x, r |-> y] : x \in Shapes(d - 1, k), y \in Shapes(d - 1, n - k)} :
                    k \in 1..(n - 1)}

RECURSIVE ShapeLeaves(_)
ShapeLeaves(s) == IF IsTeam(s) THEN 1 ELSE ShapeLeaves(s.l) + ShapeLeaves(s.r)

\* the leaves of a shape named left to right, cyclically from the k-th name
RECURSIVE LabelFrom(_, _)
LabelFrom(s, k) ==
    IF IsTeam(s) THEN Team(NameSeq[(k % 4) + 1])
    ELSE [l |-> LabelFrom(s.l, k), r |-> LabelFrom(s.r, k + ShapeLeaves(s.l))]

NestedTuples ==
    {LabelFrom(s, k) : s \in UNION {Shapes(MaxDepth, n) : n \in 1..MaxTeams}, k \in 0..1}

\* the name lists given to from_name_list: n names of the pool, cyclically
\* from the k-th
NamePool ==
    <<"T1", "T2", "T3", "T4", "T5", "T6", "T7", "T8",
      "T9", "T10", "T11", "T12", "T13", "T14", "T15", "T16">>

NameList(n, k) == [i \in 1..n |-> NamePool[((i + k - 1) % Len(NamePool)) + 1]]

NameLists == {NameList(n, k) : n \in 0..MaxNames, k \in 0..2}

\* the game records a season summary is made of, and the summaries
GameKinds == {Game(h, a, w) : h \in Universe, a \in Universe, w \in BOOLEAN} \
                 {Game(n, n, w) : n \in Universe, w \in BOOLEAN}

Seasons == SeqsUpTo(GameKinds, MaxGames)

\* the summary of the year before, when there is one
PreviousSeason == <<Game("B", "A", TRUE), Game("A", "B", FALSE)>>

\* the summary a successful harvest writes
HarvestedSeasons == {<<Game("A", "B", TRUE), Game("B", "C", TRUE)>>}

\* the rankings an earlier build left on disk for the year before
StaleRankings == [t \in {"A", "B"} |-> <<1600, 1>>]

\* the values of the initial_rating argument of __rank; the constructor passes
\* none, which is the default
InitialRatings == {1500, 1700, DefaultRating, 2000, 2010}

\* a game record in which no factor is led by either team
NoLead == Stats(<<1, 1>>, <<1, 1>>, <<1, 1>>, <<1, 1>>)

\* the factors of the games of a PageRank fit: none led, all led by the first
\* team, all led by the second, and two mixed records
StatProfiles ==
    {NoLead,
     Stats(<<2, 1>>, <<1, 2>>, <<2, 1>>, <<2, 1>>),
     Stats(<<1, 2>>, <<2, 1>>, <<1, 2>>, <<1, 2>>),
     Stats(<<2, 1>>, <<2, 1>>, <<1, 1>>, <<1, 2>>),
     Stats(<<1, 1>>, <<1, 2>>, <<1, 2>>, <<1, 1>>)}

PlainGameKinds == {StatGame(g.home, g.away, g.win, NoLead) : g \in GameKinds}

StatGameKinds ==
    {StatGame(h, a, w, s) : h \in {"A", "B"}, a \in {"A", "B"}, w \in BOOLEAN, s \in StatProfiles} \
        {StatGame(n, n, w, s) : n \in {"A", "B"}, w \in BOOLEAN, s \in StatProfiles}

\* the summaries the fits run on
PlainSeasons == SeqsUpTo(PlainGameKinds, MaxGames)

StatSeasons == SeqsUpTo(PlainGameKinds \cup StatGameKinds, MaxGames)

\* the alpha argument of PageRankComparator: the default 0.85 and 0.75
Alphas == {<<17, 20>>, <<3, 4>>}

\* the iters argument of the fits
IterCounts == {1, 2}

\* the win graphs of the path enumeration: every set of directed edges
\* between different teams, cycles included; the nodes are the ends of the
\* edges
GraphOf(E) == [nodes |-> {e[1] : e \in E} \cup {e[2] : e \in E}, edges |-> E]

WinGraphs == {GraphOf(E) : E \in SUBSET Pairs}

----------------------------------------------------------------------------
(* The state machines. *)

NoTournament == [none |-> TRUE]
NoRet == [none |-> TRUE]
NoFiles == [none |-> TRUE]
NoBuild == [none |-> TRUE]

\* Bracket simulation: build once, then play_round / normalize
InitT ==
    /\ tournament = NoTournament
    /\ prev = NoTournament
    /\ built = NoTournament
    /\ rounds = 0
    /\ lastCall = "init"
    /\ log = <<>>
    /\ comparator \in TourneyComparators
    /\ ret = NoRet
    /\ fitted = comparator
    /\ files = NoFiles
    /\ build = NoBuild
    /\ frames = 0

FromTeamList(teams) ==
    /\ lastCall = "init" /\ frames = 0
    /\ tournament' = from_team_list(teams)
    /\ built' = from_team_list(teams)
    /\ prev' = tournament
    /\ lastCall' = "from_team_list"
    /\ UNCHANGED <<rounds, log, comparator, ret, fitted, files, build, frames>>

FromNestedTuple(t) ==
    /\ lastCall = "init" /\ frames = 0
    /\ tournament' = from_nested_tuple(t)
    /\ built' = from_nested_tuple(t)
    /\ prev' = tournament
    /\ lastCall' = "from_nested_tuple"
    /\ UNCHANGED <<rounds, log, comparator, ret, fitted, files, build, frames>>

\* from_team_list([]): len(teams) is not 1, so the call splits [] into [] and
\* [] and calls from_team_list([]) again; frames counts the calls in progress
FromTeamListEmpty ==
    /\ lastCall = "init"
    /\ frames < RecursionLimit
    /\ frames' = frames + 1
    /\ UNCHANGED <<tournament, prev, built, rounds, lastCall, log, comparator, ret,
                   fitted, files, build>>

\* the interpreter ends the nested calls with RecursionError
FromTeamListRecursionError ==
    /\ lastCall = "init"
    /\ frames = RecursionLimit
    /\ frames' = 0
    /\ lastCall' = "RecursionError"
    /\ UNCHANGED <<tournament, prev, built, rounds, log, comparator, ret, fitted, files, build>>

\* rounds counts the play_round calls made on a tournament that is not a leaf
PlayRound ==
    /\ lastCall \notin {"init", "RecursionError"}
    /\ \E r \in {play_round(tournament, comparator)} :
           /\ tournament' = r.t
           /\ log' = r.games
    /\ prev' = tournament
    /\ rounds' = IF IsLeaf(tournament) THEN rounds ELSE rounds + 1
    /\ lastCall' = "play_round"
    /\ UNCHANGED <<built, comparator, ret, fitted, files, build, frames>>

Normalize ==
    /\ lastCall \notin {"init", "RecursionError"}
    /\ tournament' = normalize(tournament)
    /\ prev' = tournament
    /\ lastCall' = "normalize"
    /\ UNCHANGED <<built, rounds, log, comparator, ret, fitted, files, build, frames>>

NextT ==
    \/ \E teams \in TeamLists : FromTeamList(teams)
    \/ \E t \in NestedTuples : FromNestedTuple(t)
    \/ FromTeamListEmpty
    \/ FromTeamListRecursionError
    \/ PlayRound
    \/ Normalize

SpecT == InitT /\ [][NextT]_vars

\* Bracket simulation under the sampled resistance table
InitMatchup ==
    /\ tournament = NoTournament
    /\ prev = NoTournament
    /\ built = NoTournament
    /\ rounds = 0
    /\ lastCall = "init"
    /\ log = <<>>
    /\ comparator = MatchupTable
    /\ ret = NoRet
    /\ fitted = comparator
    /\ files = NoFiles
    /\ build = NoBuild
    /\ frames = 0

SpecMatchup == InitMatchup /\ [][NextT]_vars

\* Comparison: compare_teams(a, b) called on a fitted model
InitC ==
    /\ tournament = NoTournament
    /\ prev = NoTournament
    /\ built = NoTournament
    /\ rounds = 0
    /\ lastCall = "init"
    /\ log = <<>>
    /\ comparator \in FittedModels
    /\ ret = NoRet
    /\ fitted = comparator
    /\ files = NoFiles
    /\ build = NoBuild
    /\ frames = 0

CompareCall(a, b) ==
    /\ ret' = IF Raises(comparator, a, b)
              THEN [a |-> a, b |-> b, raised |-> TRUE, val |-> NaN, confs |-> <<>>]
              ELSE [a |-> a, b |-> b, raised |-> FALSE,
                    val |-> CompareTeams(comparator, a, b),
                    confs |-> IF comparator.kind = "hybrid"
                              THEN HybridConfs(comparator, a, b) ELSE <<>>]
    /\ comparator' = IF Raises(comparator, a, b) THEN comparator ELSE ModelAfter(comparator, a, b)
    /\ UNCHANGED <<tournament, prev, built, rounds, lastCall, log, fitted, files, build, frames>>

NextC == \E a, b \in Teams : CompareCall(a, b)

SpecC == InitC /\ [][NextC]_vars

\* Construction by name: from_name_list(names, quadrants) called once
InitN ==
    /\ tournament = NoTournament
    /\ prev = NoTournament
    /\ built = NoTournament
    /\ rounds = 0
    /\ lastCall = "init"
    /\ log = <<>>
    /\ comparator = ConstantOne
    /\ ret = NoRet
    /\ fitted = comparator
    /\ files = NoFiles
    /\ build = NoBuild
    /\ frames = 0

FromNameList(names, quadrants) ==
    /\ lastCall = "init"
    /\ \E r \in {from_name_list(names, quadrants)} :
           /\ tournament' = IF r.raised THEN tournament ELSE r.t
           /\ built' = IF r.raised THEN built ELSE r.t
           /\ lastCall' = IF r.raised THEN "ValueError" ELSE "from_name_list"
           /\ ret' = [names |-> names, quadrants |-> quadrants, raised |-> r.raised]
    /\ UNCHANGED <<prev, rounds, log, comparator, fitted, files, build, frames>>

NextN == \E names \in NameLists, quadrants \in 1..MaxQuadrants : FromNameList(names, quadrants)

SpecN == InitN /\ [][NextN]_vars

\* Building an EloComparator for BuildYear from the files on disk
InitB ==
    /\ tournament = NoTournament
    /\ prev = NoTournament
    /\ built = NoTournament
    /\ rounds = 0
    /\ lastCall = "init"
    /\ log = <<>>
    /\ comparator = NoModel
    /\ ret = NoRet
    /\ fitted = NoModel
    /\ \E this \in {NoSummaryFile} \cup {SummaryFile(g) : g \in Seasons},
          before \in {NoSummaryFile, SummaryFile(PreviousSeason)},
          stale \in {NoRankingsFile, RankingsFile(StaleRankings)} :
           files = [summary |-> [y \in Years |-> IF y = BuildYear THEN this ELSE before],
                    rankings |-> [y \in Years |-> IF y = BuildYear THEN NoRankingsFile ELSE stale]]
    /\ build = IdleBuild
    /\ frames = 0

\* EloComparator(year, gender): __rank(year, gender) begins
EloInit(initial_rating) ==
    /\ build.pc = "idle"
    /\ build' = [build EXCEPT !.pc = "summary", !.initial_rating = initial_rating,
                              !.persisted = files.rankings]
    /\ UNCHANGED <<tournament, prev, built, rounds, lastCall, log, comparator, ret,
                   fitted, files, frames>>

ReadSummary ==
    /\ build.pc = "summary"
    /\ build' = ReadSummaryFile(build, files)
    /\ UNCHANGED <<tournament, prev, built, rounds, lastCall, log, comparator, ret,
                   fitted, files, frames>>

\* data_scraping.harvest raises
HarvestRaises ==
    /\ build.pc = "harvest"
    /\ build' = HarvestRaised(build)
    /\ UNCHANGED <<tournament, prev, built, rounds, lastCall, log, comparator, ret,
                   fitted, files, frames>>

\* data_scraping.harvest returns, having written the summary of the year
HarvestWrites(games) ==
    /\ build.pc = "harvest"
    /\ build' = HarvestReturned(build)
    /\ files' = [files EXCEPT !.summary[build.year] = SummaryFile(games)]
    /\ UNCHANGED <<tournament, prev, built, rounds, lastCall, log, comparator, ret,
                   fitted, frames>>

\* data_scraping.harvest returns, the summary file of the year is still missing
HarvestWritesNothing ==
    /\ build.pc = "harvest"
    /\ build.harvests[build.year] + 1 < MaxHarvests
    /\ build' = HarvestReturned(build)
    /\ UNCHANGED <<tournament, prev, built, rounds, lastCall, log, comparator, ret,
                   fitted, files, frames>>

GetTeams ==
    /\ build.pc = "teams"
    /\ build' = AfterSummary(build)
    /\ UNCHANGED <<tournament, prev, built, rounds, lastCall, log, comparator, ret,
                   fitted, files, frames>>

EloGame ==
    /\ build.pc = "games"
    /\ build.k <= Len(build.summary.games)
    /\ build' = AfterGame(build)
    /\ UNCHANGED <<tournament, prev, built, rounds, lastCall, log, comparator, ret,
                   fitted, files, frames>>

\* serialize_results of the fit of the year before, then back in the fit of
\* the build year
SerializePrevious ==
    /\ build.pc = "games"
    /\ build.k > Len(build.summary.games)
    /\ build.first_year
    /\ files' = [files EXCEPT !.rankings[build.year] = RankingsFile(build.ratings)]
    /\ build' = AfterPreviousYear(build)
    /\ UNCHANGED <<tournament, prev, built, rounds, lastCall, log, comparator, ret,
                   fitted, frames>>

\* serialize_results of the fit of the build year, then __build_model
SerializeAndBuild ==
    /\ build.pc = "games"
    /\ build.k > Len(build.summary.games)
    /\ ~build.first_year
    /\ files' = [files EXCEPT !.rankings[build.year] = RankingsFile(build.ratings)]
    /\ comparator' = [kind |-> "elo", rankings |-> build.ratings]
    /\ fitted' = [kind |-> "elo", rankings |-> build.ratings]
    /\ build' = [build EXCEPT !.pc = "done"]
    /\ UNCHANGED <<tournament, prev, built, rounds, lastCall, log, ret, frames>>

NextB ==
    \/ \E r \in InitialRatings : EloInit(r)
    \/ ReadSummary
    \/ HarvestRaises
    \/ \E g \in HarvestedSeasons : HarvestWrites(g)
    \/ HarvestWritesNothing
    \/ GetTeams
    \/ EloGame
    \/ SerializePrevious
    \/ SerializeAndBuild

SpecB == InitB /\ [][NextB]_vars

\* A fit of one model family on one season summary.  The exact arithmetic of
\* PageRank fits of two iterations stays in range on summaries in which no
\* factor is led.
InitF ==
    /\ tournament = NoTournament
    /\ prev = NoTournament
    /\ built = NoTournament
    /\ rounds = 0
    /\ lastCall = "init"
    /\ log = <<>>
    /\ comparator = NoModel
    /\ ret = NoRet
    /\ fitted = NoModel
    /\ files = NoFiles
    /\ frames = 0
    /\ \/ \E s \in StatSeasons, alpha \in Alphas :
              build = StartFit("pagerank", s, alpha, 1, <<>>)
       \/ \E s \in PlainSeasons, alpha \in Alphas :
              build = StartFit("pagerank", s, alpha, 2, <<>>)
       \/ \E s \in PlainSeasons, iters \in IterCounts :
              \/ build = StartFit("bradleyterry", s, Zero, iters, <<>>)
              \/ build = StartFit("bradleyterry", s, Zero, iters,
                                  BTRankFirstYear(PreviousSeason, iters))
       \/ \E s \in PlainSeasons, family \in {"elo", "pathweight", "resistance"} :
              build = StartFit(family, s, Zero, 0, <<>>)

FitGame ==
    /\ build.pc = "games"
    /\ build.k <= Len(build.summary)
    /\ build' = FitGameStep(build)
    /\ UNCHANGED <<tournament, prev, built, rounds, lastCall, log, comparator, ret,
                   fitted, files, frames>>

FitGamesDone ==
    /\ build.pc = "games"
    /\ build.k > Len(build.summary)
    /\ build' = AfterGames(build)
    /\ UNCHANGED <<tournament, prev, built, rounds, lastCall, log, comparator, ret,
                   fitted, files, frames>>

FitIterate ==
    /\ build.pc = "iterate"
    /\ build.teams # {}
    /\ build' = IterateStep(build)
    /\ UNCHANGED <<tournament, prev, built, rounds, lastCall, log, comparator, ret,
                   fitted, files, frames>>

FitIterateRaises ==
    /\ build.pc = "iterate"
    /\ build.teams = {}
    /\ build' = IterateRaised(build)
    /\ UNCHANGED <<tournament, prev, built, rounds, lastCall, log, comparator, ret,
                   fitted, files, frames>>

FitSerialize ==
    /\ build.pc = "ranked"
    /\ build' = Ranked(build)
    /\ UNCHANGED <<tournament, prev, built, rounds, lastCall, log, comparator, ret,
                   fitted, files, frames>>

NextF ==
    \/ FitGame
    \/ FitGamesDone
    \/ FitIterate
    \/ FitIterateRaises
    \/ FitSerialize

SpecF == InitF /\ [][NextF]_vars

\* find_all_paths(start) on a win graph
InitD ==
    /\ tournament = NoTournament
    /\ prev = NoTournament
    /\ built = NoTournament
    /\ rounds = 0
    /\ lastCall = "init"
    /\ log = <<>>
    /\ comparator = NoModel
    /\ ret = NoRet
    /\ fitted = NoModel
    /\ files = NoFiles
    /\ frames = 0
    /\ \E G \in WinGraphs, max_paths \in 1..MaxPaths, max_depth \in 1..MaxPathDepth :
           \E start \in G.nodes : build = StartSearch(G, start, max_paths, max_depth)

SearchPass ==
    /\ build.pc = "search"
    /\ SearchGoesOn(build)
    /\ \E ns \in Orderings(Neighbors(build.G, build.stack[Len(build.stack)].cur)) :
           build' = SearchStep(build, ns)
    /\ UNCHANGED <<tournament, prev, built, rounds, lastCall, log, comparator, ret,
                   fitted, files, frames>>

SearchEnds ==
    /\ build.pc = "search"
    /\ ~SearchGoesOn(build)
    /\ build' = SearchReturn(build)
    /\ UNCHANGED <<tournament, prev, built, rounds, lastCall, log, comparator, ret,
                   fitted, files, frames>>

NextD ==
    \/ SearchPass
    \/ SearchEnds

SpecD == InitD /\ [][NextD]_vars

\* the loop is not suspended: a pass or the return that can be taken is taken
SpecDFair == SpecD /\ WF_vars(NextD)

Init == InitT
Next == NextT
Spec == SpecT

----------------------------------------------------------------------------
(* Properties of compare_teams (specification SpecC). *)

Called == "none" \notin DOMAIN ret

\* |x - 1| <= 1e-6
NearOne(x) == RLe(RAbs(RSub(x, One)), <<1, 1000000>>)

\* compare(a, b) + compare(b, a) = 1 and compare(a, a) = 0.5 for the call just made
CallSymmetric ==
    /\ NearOne(RAdd(ret.val, CompareTeams(comparator, ret.b, ret.a)))
    /\ TeamEq(ret.a, ret.b) => ret.val = Half

\* a model obeys the comparator contract on every pair of teams it knows
Symmetric(m) ==
    \A a, b \in Teams :
        ~Raises(m, a, b) =>
            /\ RAdd(CompareTeams(m, a, b), CompareTeams(m, b, a)) = One
            /\ CompareTeams(m, a, a) = Half

\* C1: for the PageRank, Elo, Bradley-Terry, seed and resistance models and all
\* teams a, b the fitted model knows, compare(a,b) + compare(b,a) = 1 within 1e-6
\* and compare(a,a) = 0.5, pairs of equal fitted scores and every resistance
\* fallback branch included.
C1_CompareSymmetric ==
    (/\ Called
     /\ comparator.kind \in {"pagerank", "elo", "bradleyterry", "seed", "resistance"}
     /\ ~ret.raised)
        => CallSymmetric

\* C8: the hybrid model's compare satisfies compare(a,b) + compare(b,a) = 1 and
\* compare(a,a) = 0.5 whenever every wrapped model does, also when the largest
\* wrapped result equals one minus the smallest.
C8_HybridSymmetric ==
    (/\ Called
     /\ comparator.kind = "hybrid"
     /\ ~ret.raised
     /\ \A i \in 1..Len(comparator.comparators) : Symmetric(comparator.comparators[i]))
        => CallSymmetric

\* the largest and the smallest of the wrapped results, as values
ConfMax(confs) ==
    CHOOSE x \in {confs[i] : i \in 1..Len(confs)} : \A j \in 1..Len(confs) : RGe(x, confs[j])
ConfMin(confs) ==
    CHOOSE x \in {confs[i] : i \in 1..Len(confs)} : \A j \in 1..Len(confs) : RLe(x, confs[j])

\* distance of a probability from 0.5
Confidence(x) == RAbs(RSub(x, Half))

\* C9: the hybrid model evaluates every wrapped model and returns max if
\* max >= 1 - min, else min; the returned value is one of the wrapped results
\* and no wrapped result is further from 0.5 than it.
C9_HybridMostConfident ==
    (Called /\ comparator.kind = "hybrid" /\ ~ret.raised) =>
        /\ Len(ret.confs) = Len(comparator.comparators)
        /\ ret.val = IF RGe(ConfMax(ret.confs), RSub(One, ConfMin(ret.confs)))
                     THEN ConfMax(ret.confs) ELSE ConfMin(ret.confs)
        /\ \E i \in 1..Len(ret.confs) : ret.val = ret.confs[i]
        /\ \A i \in 1..Len(ret.confs) : RLe(Confidence(ret.confs[i]), Confidence(ret.val))

\* C9 witness: a hybrid of two models that disagree returned the smaller result
C9_Witness ==
    /\ Called /\ comparator.kind = "hybrid" /\ ~ret.raised
    /\ Len(ret.confs) = 2
    /\ ret.confs[1] # ret.confs[2]
    /\ ret.val = ConfMin(ret.confs)

\* a resistance for x -> y is stored in the table
Stored(mat, x, y) == x.name \in DOMAIN mat /\ y.name \in DOMAIN mat[x.name]

\* C10: in the resistance model compare(a,b) for distinct teams is
\* seed(b)/(seed(a)+seed(b)) when neither direction is stored, 0.01 when only
\* b->a is stored, 0.99 when only a->b is stored, R(b->a)/(R(a->b)+R(b->a)) when
\* both are; a team with no stored entry takes a fallback branch, nothing raises.
C10_ResistanceBranches ==
    (Called /\ comparator.kind = "resistance" /\ ~TeamEq(ret.a, ret.b)) =>
        LET ab == Stored(comparator.mat, ret.a, ret.b)
            ba == Stored(comparator.mat, ret.b, ret.a)
        IN  /\ ~ret.raised
            /\ (~ab /\ ~ba) => ret.val = Rat(ret.b.seed, ret.a.seed + ret.b.seed)
            /\ (~ab /\ ba) => ret.val = Rat(1, 100)
            /\ (ab /\ ~ba) => ret.val = Rat(99, 100)
            /\ (ab /\ ba) =>
                  ret.val = RDiv(comparator.mat[ret.b.name][ret.a.name],
                                 RAdd(comparator.mat[ret.a.name][ret.b.name],
                                      comparator.mat[ret.b.name][ret.a.name]))

\* C10 witness: a team outside the fitted graph was compared with one that has
\* stored resistances, and the seed ratio came back
C10_Witness ==
    /\ Called /\ comparator.kind = "resistance" /\ ~ret.raised
    /\ ret.a.name = "D" /\ ret.b.name = "A"
    /\ \E n \in Universe : Stored(comparator.mat, ret.b, Team(n))
    /\ ret.val = Rat(1, 10)

\* the table holds a finite shortest path x -> y
PathKnown(mat, x, y) ==
    /\ x.name \in DOMAIN mat
    /\ y.name \in DOMAIN mat[x.name]
    /\ ~IsInf(mat[x.name][y.name])

\* C11: in the path-weight model compare(a,b) for two distinct teams of the
\* fitted graph with no path in either direction returns seed(b)/(seed(a)+seed(b)), neither failing
\* nor returning a non-number; with a path in exactly one direction it returns
\* one of the fixed high-confidence values 0.99 / 0.01.
C11_PathWeightFallback ==
    (/\ Called /\ comparator.kind = "pathweight" /\ ~TeamEq(ret.a, ret.b)
     /\ {ret.a.name, ret.b.name} \subseteq DOMAIN comparator.mat) =>
        LET ab == PathKnown(comparator.mat, ret.a, ret.b)
            ba == PathKnown(comparator.mat, ret.b, ret.a)
        IN  /\ (~ab /\ ~ba) =>
                  ~ret.raised /\ ret.val = Rat(ret.b.seed, ret.a.seed + ret.b.seed)
            /\ (ab # ba) =>
                  ~ret.raised /\ ret.val \in {Rat(1, 100), Rat(99, 100)}

\* C14: compare is side-effect-free for every model: after any sequence of
\* compare calls, calls naming teams with no stored entry included, the model's
\* fitted state is the one it had right after construction, and nothing is
\* persisted.
C14_CompareNoSideEffect ==
    /\ comparator = fitted
    /\ files = NoFiles

----------------------------------------------------------------------------
(* Properties of from_name_list (specification SpecN). *)

RECURSIVE Pow2(_)
Pow2(k) == IF k = 0 THEN 1 ELSE 2 * Pow2(k - 1)

IsPowerOfTwo(n) == \E k \in 0..n : Pow2(k) = n

NameListCalled == lastCall \in {"from_name_list", "ValueError"}

\* C15: from_name_list raises an error and builds no tournament whenever the
\* number of names is not a power of two or is smaller than the number of
\* quadrants.
C15_NameListRejects ==
    (/\ NameListCalled
     /\ (~IsPowerOfTwo(Len(ret.names)) \/ Len(ret.names) < ret.quadrants)) =>
        /\ ret.raised
        /\ lastCall = "ValueError"
        /\ tournament = NoTournament

\* C15 witness: twelve names in four quadrants (enough names, no power of two)
\* were rejected
C15_Witness ==
    /\ lastCall = "ValueError"
    /\ Len(ret.names) = 12 /\ ret.quadrants = 4
    /\ tournament = NoTournament

\* the i-th seed of the ordering for a quadrant of n teams: seed s of the
\* ordering for n/2 is followed by n - s + 1
RECURSIVE SeedAt(_, _)
SeedAt(n, i) ==
    IF n = 1 THEN 1
    ELSE IF i % 2 = 1 THEN SeedAt(n \div 2, (i + 1) \div 2)
    ELSE n - SeedAt(n \div 2, i \div 2) + 1

\* the seeds of the teams of a quadrant of the built bracket, left to right
QuadrantSeeds(t, quadrant, size) ==
    [i \in 1..size |-> Leaves(t)[quadrant * size + i][1].team.seed]

NcaaOrdering == <<1, 16, 8, 9, 4, 13, 5, 12, 2, 15, 7, 10, 3, 14, 6, 11>>

\* C17: the seed ordering of a quadrant of size n (a power of two) is [1] for
\* n = 1, otherwise each seed s of the ordering for n/2 followed by n - s + 1;
\* it is a permutation of 1..n, every adjacent first-round pair sums to n + 1,
\* for n = 16 it is [1, 16, 8, 9, 4, 13, 5, 12, 2, 15, 7, 10, 3, 14, 6, 11], and
\* every quadrant receives the same ordering.
C17_SeedOrdering ==
    lastCall = "from_name_list" =>
        LET size == Len(ret.names) \div ret.quadrants
        IN  IsPowerOfTwo(size) =>
                \A quadrant \in 0..(ret.quadrants - 1) :
                    LET seeds == QuadrantSeeds(tournament, quadrant, size)
                    IN  /\ seeds = [i \in 1..size |-> SeedAt(size, i)]
                        /\ {seeds[i] : i \in 1..size} = 1..size
                        /\ \A i \in 1..size : i % 2 = 1 /\ size > 1 => seeds[i] + seeds[i + 1] = size + 1
                        /\ size = 16 => seeds = NcaaOrdering
                        /\ seeds = QuadrantSeeds(tournament, 0, size)

\* C17 witness: sixteen names in one quadrant were seeded in the listed order,
\* and brackets of several quadrants with more than one team each were built
C17_Witness ==
    /\ lastCall = "from_name_list"
    /\ Len(ret.names) = 16 /\ ret.quadrants = 1
    /\ QuadrantSeeds(tournament, 0, 16) = NcaaOrdering

\* C29: for every names list and quadrants value that from_name_list accepts
\* without raising, the tournament has exactly one leaf per input name, in
\* input order from left to right, and every leaf is a single team with
\* probability 1 and a seed between 1 and len(names) / quadrants.
C29_NameListLeaves ==
    lastCall = "from_name_list" =>
        LET leaves == Leaves(tournament)
        IN  /\ Len(leaves) = Len(ret.names)
            /\ \A i \in 1..Len(leaves) :
                   /\ Len(leaves[i]) = 1
                   /\ leaves[i][1].p = One
                   /\ leaves[i][1].team.name = ret.names[i]
                   /\ leaves[i][1].team.seed >= 1
                   /\ leaves[i][1].team.seed * ret.quadrants <= Len(ret.names)

----------------------------------------------------------------------------
(* Properties of a model build (specification SpecB). *)

\* C12: when the season summary of a year is missing, a build calls the
\* external rebuild (harvest) exactly once and then re-reads the summary
\* exactly once; the rebuild is never called a second time in the same build,
\* whatever the state of the summary after a rebuild that reported success.
C12_RebuildOnce ==
    \A y \in Years :
        /\ build.harvests[y] <= 1
        /\ build.reads[y] <= 2
        /\ build.reads[y] <= build.harvests[y] + 1

\* C13: when no season summary exists for the year and the external rebuild
\* fails, building a model fails with an error surfaced to the caller: no model
\* object is returned, no rankings artifact is persisted for that year and no
\* further rebuild is attempted.
C13_MissingSummaryFails ==
    build.raisedYear # 0 =>
        /\ build.pc \in {"teams", "failed"}
        /\ build.summary.none
        /\ build.pc = "failed" => build.error = "TypeError"
        /\ comparator = NoModel
        /\ files.rankings[build.raisedYear] = build.persisted[build.raisedYear]
        /\ ~files.rankings[BuildYear].exists
        /\ build.harvests[build.raisedYear] = build.raisedOn

\* C13 witness: the summary of the build year was missing, the one rebuild
\* raised, and the build ended in the error
C13_Witness ==
    /\ build.pc = "failed" /\ build.error = "TypeError"
    /\ build.raisedYear = BuildYear
    /\ build.harvests[BuildYear] = 1
    /\ ~files.summary[BuildYear].exists
    /\ comparator = NoModel

\* C19: in each Elo game update the K-factor is chosen from the lower of the
\* two pre-game ratings m: 32 if m < 1500, 24 if 1700 <= m <= 2000, 16 in every
\* other case (1500 <= m < 1700 and m > 2000); the winner gains K * (1 - E).
C19_KFactorTiers ==
    build.last.counted =>
        LET u == build.last
            rA == u.before[u.game.home]
            rB == u.before[u.game.away]
            m == u.min_rating
        IN  /\ m \in {rA, rB} /\ RLe(m, rA) /\ RLe(m, rB)
            /\ RLt(m, <<1500, 1>>) => u.K = 32
            /\ (RLe(<<1700, 1>>, m) /\ RLe(m, <<2000, 1>>)) => u.K = 24
            /\ (RLe(<<1500, 1>>, m) /\ RLt(m, <<1700, 1>>)) => u.K = 16
            /\ RGt(m, <<2000, 1>>) => u.K = 16
            /\ u.K \in {16, 24, 32}
            /\ RSub(u.after[u.game.home], rA) = RMul(<<u.K, 1>>, RSub(One, EloExpected(rA, rB)))

\* C19 witness: a game was counted whose lower pre-game rating lay strictly
\* between 1500 and 1700, with K = 16
C19_Witness ==
    /\ build.last.counted
    /\ RLt(<<1500, 1>>, build.last.min_rating)
    /\ RLt(build.last.min_rating, <<1700, 1>>)
    /\ build.last.K = 16

\* the season of the Elo scenario: A beats B, B beats C, each game recorded
\* once with the winner as first team
ScenarioSeason == <<Game("A", "B", TRUE), Game("B", "C", TRUE)>>

\* C20: fitted on the summary of 3 teams with the games A beats B and B beats
\* C, the Elo model holds a rating for each of A, B and C, ordered A > B > C.
C20_EloThreeTeams ==
    (build.pc = "done" /\ files.summary[BuildYear].games = ScenarioSeason) =>
        /\ DOMAIN comparator.rankings = {"A", "B", "C"}
        /\ RGt(comparator.rankings["A"], comparator.rankings["B"])
        /\ RGt(comparator.rankings["B"], comparator.rankings["C"])

\* C28: building a model for year Y creates or overwrites persisted artifacts
\* only under the key of year Y; the rankings and vector artifacts persisted
\* for every other year, in particular Y - 1, are the same after the build as
\* before it.
C28_OnlyBuildYearWritten ==
    build.pc # "idle" =>
        \A y \in Years \ {BuildYear} : files.rankings[y] = build.persisted[y]

\* the sum of the ratings of a fit
RatingSum(ratings) == RSumSet(ratings, DOMAIN ratings)

\* C30: every Elo game update raises the winner's rating by K * (1 - E_winner)
\* and lowers the loser's rating by the same amount, so after any sequence of
\* processed games the sum of all ratings equals the sum of the initial
\* ratings; in a game the winner's rating never decreases and the loser's never
\* increases.
C30_EloZeroSum ==
    /\ build.pc \in {"games", "done"} => RatingSum(build.ratings) = RatingSum(build.start)
    /\ build.last.counted =>
           LET u == build.last
               w == u.game.home
               l == u.game.away
               gain == RMul(<<u.K, 1>>, RSub(One, EloExpected(u.before[w], u.before[l])))
           IN  /\ RSub(u.after[w], u.before[w]) = gain
               /\ RSub(u.before[l], u.after[l]) = gain
               /\ RGe(u.after[w], u.before[w])
               /\ RLe(u.after[l], u.before[l])
               /\ \A t \in DOMAIN u.before \ {w, l} : u.after[t] = u.before[t]

\* C30 witness: a counted game between teams of different ratings, in a fit
\* that has processed every game of a two-game season
C30_Witness ==
    /\ build.pc = "done"
    /\ build.last.counted
    /\ build.last.before[build.last.game.home] # build.last.before[build.last.game.away]
    /\ RGt(build.last.after[build.last.game.home], build.last.before[build.last.game.home])
    /\ build.ratings # build.start

----------------------------------------------------------------------------
(* Properties of the fits (specification SpecF). *)

\* the season summaries of the single game TeamX = A beat TeamY = B
IsSingleGame(total_summary) ==
    /\ Len(total_summary) = 1
    /\ total_summary[1].home = "A" /\ total_summary[1].away = "B" /\ total_summary[1].win

\* C21: for a season summary consisting of the single game (TeamX, TeamY,
\* TeamX_won=True), the PageRank model is fitted on the 2-team universe
\* {TeamX, TeamY}, ranks TeamX strictly above TeamY, and compare(TeamX, TeamY),
\* which exceeds 0.5 for the higher-ranked team, is returned without error.
C21_PageRankSingleGame ==
    (build.family = "pagerank" /\ build.pc = "done" /\ IsSingleGame(build.summary)) =>
        /\ build.teams = {"A", "B"}
        /\ DOMAIN build.rankings = {"A", "B"}
        /\ ~Raises([kind |-> "pagerank", rankings |-> build.rankings], Team("A"), Team("B"))
        /\ RGt(build.rankings["A"], build.rankings["B"])

\* C22: after a Bradley-Terry fit on any season summary with a non-empty
\* universe (teams with no wins and teams with no qualifying games included),
\* the strengths sum to 1 and every strength is a number strictly greater than
\* 0; the same holds after every iteration.
C22_BradleyTerryStrengths ==
    (/\ build.family = "bradleyterry" /\ build.teams # {}
     /\ build.iter >= 1 /\ build.pc \in {"iterate", "ranked", "done"}) =>
        /\ RSumSet(build.vec, build.teams) = One
        /\ \A t \in build.teams : RGt(build.vec[t], Zero)

\* C23: during a PageRank fit over n teams, after every iteration
\* (multiplication followed by rescaling) the entries of the rank vector sum
\* to n.
C23_PageRankSum ==
    (build.family = "pagerank" /\ build.iter >= 1) =>
        RSumSet(build.vec, build.teams) = <<Cardinality(build.teams), 1>>

\* C23 witness: the second iteration of a fit over at least two teams, the
\* vector no longer uniform
C23_Witness ==
    /\ build.family = "pagerank" /\ build.iter = 2
    /\ Cardinality(build.teams) >= 2
    /\ \E t, u \in build.teams : RGt(build.vec[t], build.vec[u])

\* the universe of a summary: the names appearing as first team of a record
FirstTeams(total_summary) == {total_summary[i].home : i \in 1..Len(total_summary)}

\* C24: while fitting the PageRank, Elo, Bradley-Terry, path-weight or
\* resistance model, a game record whose first team is not flagged as winner,
\* or in which either participant is outside the universe (the names appearing
\* as first team of some record), leaves the model's matrix, ratings or graph
\* unchanged; only records with both teams in the universe and the first team
\* winning change it.
C24_OnlyQualifyingGamesCount ==
    build.last.stepped =>
        LET game == build.last.game
            universe == FirstTeams(build.summary)
            qualifying == game.win /\ game.home \in universe /\ game.away \in universe
        IN  /\ ~qualifying => build.last.after = build.last.before
            /\ build.last.after # build.last.before => qualifying

\* C24 witness: a game the first team lost, between two teams of the universe,
\* passed over by a fit that has already counted a game
C24_Witness ==
    /\ build.last.stepped /\ ~build.last.counted
    /\ ~build.last.game.win
    /\ {build.last.game.home, build.last.game.away} \subseteq FirstTeams(build.summary)
    /\ build.family \in {"bradleyterry", "pathweight", "resistance"}
    /\ \E e \in DOMAIN build.mat : build.mat[e] > 0
    /\ build.last.after = build.last.before

\* the factor weights a team of a game is credited with: me = 1 for the first
\* team, 2 for the second; a factor is led when strictly higher, the turnover
\* percentage when strictly lower
FactorCredit(s, me) ==
    LET other == 3 - me
    IN  (IF s.eFGp[me] > s.eFGp[other] THEN 133333 ELSE 0)
        + (IF s.TOVp[me] < s.TOVp[other] THEN 66666 ELSE 0)
        + (IF s.ORBp[me] > s.ORBp[other] THEN 83333 ELSE 0)
        + (IF s.FTR[me] > s.FTR[other] THEN 50000 ELSE 0)

----------------------------------------------------------------------------
(* Properties of the path enumeration (specification SpecD). *)

\* the number of paths without a repeated node that start at one node of a
\* complete graph of n <= 3 nodes: 1 + (n - 1) + (n - 1)(n - 2)
SimplePathsBound(G) ==
    LET n == Cardinality(G.nodes) IN 1 + (n - 1) + (n - 1) * (n - 2)

IsBoundedSimplePath(b, path) ==
    /\ Len(path) >= 2 /\ Len(path) <= b.max_depth
    /\ path[1] = b.start
    /\ \A i \in 1..(Len(path) - 1) : <<path[i], path[i + 1]>> \in b.G.edges
    /\ \A i, j \in 1..Len(path) : i # j => path[i] # path[j]

\* what find_all_paths has collected and returned is within its bounds
PathsBounded ==
    /\ build.passes <= build.max_paths
    /\ build.passes <= SimplePathsBound(build.G)
    /\ build.pc = "returned" =>
           /\ Len(build.returned) < build.max_paths
           /\ \A i \in 1..Len(build.returned) : IsBoundedSimplePath(build, build.returned[i])

\* C26: for every finite directed win graph (cycles included) and every source
\* node, the bounded depth-first path enumeration terminates and returns fewer
\* than max_paths paths, each of which starts at the source, follows existing
\* edges, repeats no node, and has at least 2 and at most max_depth nodes.
C26_BoundedPaths == []PathsBounded /\ <>(build.pc = "returned")

\* C26 witness: on a graph with a cycle through all three teams, the search
\* stopped by max_paths with entries left on the stack
C26_Witness ==
    /\ build.pc = "returned"
    /\ {<<"A", "B">>, <<"B", "C">>, <<"C", "A">>} \subseteq build.G.edges
    /\ build.stack # <<>>
    /\ Len(build.returned) = build.max_paths - 1
    /\ \E i \in 1..Len(build.returned) : Len(build.returned[i]) = 3

----------------------------------------------------------------------------
(* Properties of the Tournament (specification SpecT). *)

HasTournament == lastCall \notin {"init", "RecursionError"}

Mass(d) == RSum([i \in 1..Len(d) |-> d[i].p])

SingleTeamLeaves(t) == \A i \in 1..Len(Leaves(t)) : Len(Leaves(t)[i]) = 1

\* C2: with a comparator that satisfies compare(a,b) + compare(b,a) = 1 and
\* compare(a,a) = 0.5, a tournament built from single-team leaves (byes
\* included) has, after any number of play_round calls, leaves whose
\* probabilities each sum to 1.
C2_LeavesSumToOne ==
    (HasTournament /\ Symmetric(comparator)) =>
        \A i \in 1..Len(Leaves(tournament)) : Mass(Leaves(tournament)[i]) = One

\* C2 witness: two rounds played under a contract-abiding comparator that is
\* not a coin flip, on a bracket with a bye, leaving a leaf of three teams or more
C2_Witness ==
    /\ HasTournament /\ Symmetric(comparator)
    /\ rounds >= 2
    /\ CompareTeams(comparator, Team("A"), Team("B")) # Half
    /\ \E i \in 1..Len(Leaves(built)) \ {1} : Leaves(built)[i] = Leaves(built)[i - 1]
    /\ \E i \in 1..Len(Leaves(tournament)) : Len(Leaves(tournament)[i]) >= 3

\* P_A(t) * sum over u of P_B(u) * compare(t, u), absent teams having probability 0
Contribution(A, B, t, m) ==
    RMul(DictGet(A, t),
         RSumSet([u \in Teams |-> IF DictGet(B, u) = Zero THEN Zero
                                  ELSE RMul(DictGet(B, u), CompareTeams(m, t, u))], Teams))

\* C3: the leaf that replaces two leaves A and B gives every team t the value
\* P_A(t) * sum_u P_B(u) compare(t,u) + P_B(t) * sum_u P_A(u) compare(t,u); a
\* team on both sides gets both contributions.
C3_RoundFormula ==
    lastCall = "play_round" =>
        \A i \in 1..Len(log) :
            /\ \A t \in Teams :
                  DictGet(log[i].result, t) =
                      RAdd(Contribution(log[i].a, log[i].b, t, comparator),
                           Contribution(log[i].b, log[i].a, t, comparator))
            /\ \E k \in 1..Len(Leaves(tournament)) : Leaves(tournament)[k] = log[i].result

\* C3 witness: a game between two multi-team leaves that share a team
C3_Witness ==
    /\ lastCall = "play_round"
    /\ \E i \in 1..Len(log) :
          /\ Len(log[i].a) >= 2 /\ Len(log[i].b) >= 2
          /\ \E t \in Teams : DictIndex(log[i].a, t) # 0 /\ DictIndex(log[i].b, t) # 0
    /\ CompareTeams(comparator, Team("A"), Team("B")) # Half

ScenarioBuilt == built = from_team_list(<<Team("A"), Team("B"), Team("C"), Team("D")>>)

C5_PlayRoundProgress ==
    /\ (lastCall = "play_round" /\ ~IsLeaf(prev)) =>
          /\ TLen(tournament) < TLen(prev)
          /\ Depth(tournament) = Depth(prev) - 1
    /\ (lastCall = "play_round" /\ IsLeaf(prev)) => tournament = prev
    /\ HasTournament =>
          /\ rounds + Depth(tournament) = Depth(built)
          /\ IsLeaf(tournament) <=> rounds = Depth(built)

RECURSIVE MinLeafDepth(_)
MinLeafDepth(t) ==
    IF IsLeaf(t) THEN 0
    ELSE 1 + (IF MinLeafDepth(t.left) <= MinLeafDepth(t.right)
              THEN MinLeafDepth(t.left) ELSE MinLeafDepth(t.right))

Balanced(t) == MinLeafDepth(t) = Depth(t)

\* C5 witness: an unbalanced bracket of depth 3 reduced to its root by 3 calls
C5_Witness ==
    /\ lastCall = "play_round" /\ IsLeaf(tournament)
    /\ Depth(built) = 3 /\ ~Balanced(built) /\ rounds = 3

Copies(x, n) == [i \in 1..n |-> x]

\* the leaves a balanced tree of depth D must have: each leaf of t at depth
\* `depth` repeated 2^(D - depth) times
RECURSIVE ExpandLeaves(_, _, _)
ExpandLeaves(t, depth, D) ==
    IF IsLeaf(t) THEN Copies(t.leaf, Pow2(D - depth))
    ELSE ExpandLeaves(t.left, depth + 1, D) \o ExpandLeaves(t.right, depth + 1, D)

\* C6: normalize() returns a tree whose every leaf is at the original tree's
\* maximum depth (2^depth leaves), each too-shallow leaf replaced by a full
\* subtree of copies of itself; a balanced tree keeps its shape and leaf order.
C6_NormalizeBalanced ==
    lastCall = "normalize" =>
        /\ Depth(tournament) = Depth(prev)
        /\ Balanced(tournament)
        /\ TLen(tournament) = Pow2(Depth(prev))
        /\ Leaves(tournament) = ExpandLeaves(prev, 0, Depth(prev))
        /\ Balanced(prev) => tournament = prev

\* C6 witness: a tree of depth 3 with a leaf right under the root was normalized
C6_Witness ==
    /\ lastCall = "normalize"
    /\ Depth(prev) = 3 /\ MinLeafDepth(prev) = 1

\* the root distribution a tournament ends with when played to a single leaf
RECURSIVE PlayOut(_, _)
PlayOut(t, m) == IF IsLeaf(t) THEN t.leaf ELSE PlayOut(play_round(t, m).t, m)

SameDistribution(d1, d2) == \A t \in Teams : DictGet(d1, t) = DictGet(d2, t)

C16_EmptyRejected ==
    /\ frames <= 1
    /\ lastCall # "RecursionError"

\* the team is a key of the distribution
HasKey(d, team) == DictIndex(d, team) # 0

\* C18: in play_round, for every reduced pair of leaves an upset is reported if
\* and only if the seed number of the most probable team of the resulting
\* distribution is greater than that of its defeated counterpart, the most
\* probable team of the child on the opposite side from the one the winning
\* team came from.
C18_UpsetOpposite ==
    lastCall = "play_round" =>
        \A i \in 1..Len(log) :
            LET g == log[i]
                winner == ArgMax(g.result)
            IN  /\ (HasKey(g.a, winner) /\ ~HasKey(g.b, winner)) =>
                      (g.is_upset <=> winner.seed > ArgMax(g.b).seed)
                /\ (HasKey(g.b, winner) /\ ~HasKey(g.a, winner)) =>
                      (g.is_upset <=> winner.seed > ArgMax(g.a).seed)

\* the names of the teams that are keys of some leaf of t
RECURSIVE TeamKeys(_)
TeamKeys(t) ==
    IF IsLeaf(t) THEN {t.leaf[i].team.name : i \in 1..Len(t.leaf)}
    ELSE TeamKeys(t.left) \cup TeamKeys(t.right)

\* C27: play_round never introduces or drops a team: the union of the team
\* keys over all leaves is the same before and after every play_round call, so
\* the root distribution of a fully played tournament has exactly the initial
\* teams as its keys.
C27_PlayRoundKeepsTeams ==
    /\ lastCall = "play_round" => TeamKeys(tournament) = TeamKeys(prev)
    /\ (HasTournament /\ IsLeaf(tournament)) =>
           {tournament.leaf[i].team.name : i \in 1..Len(tournament.leaf)} = TeamKeys(built)

\* C27 witness: a bracket of at least three teams played down to its root
C27_Witness ==
    /\ lastCall = "play_round" /\ rounds >= 2
    /\ IsLeaf(tournament) /\ ~IsLeaf(prev)
    /\ Cardinality(TeamKeys(built)) >= 3
    /\ Len(tournament.leaf) = Cardinality(TeamKeys(built))

====
